---- MODULE Spec2Model ----
(***************************************************************************)
(* A model of claude-run's storage engine (src/src/storage.ts): the        *)
(* session-file readers getConversation / getConversationStream, the       *)
(* session resolver getSessions with its history cache, and the request    *)
(* coalescing of dedupe.                                                   *)
(*                                                                         *)
(* A session file is a sequence of lines.  A line is [kind, len]: kind is  *)
(* what JSON.parse and the type test make of the line's text, len is the   *)
(* number of bytes of the text without its newline.  fileOpen says that    *)
(* the last line has no newline yet (the producer is still writing it).    *)
(***************************************************************************)
EXTENDS Integers, Sequences, FiniteSets, TLC

VARIABLES
  fileExists,   \* the session file <projects>/<dir>/s1.jsonl is on disk
  fileLines,    \* its lines, in file order
  fileOpen,     \* its last line is not newline-terminated yet
  fileIndex,    \* ClaudeStorage.fileIndex: the session ids it maps
  indexPaths,   \* ClaudeStorage.fileIndex: the directory of the path under
                \* each id, where several directories are followed
  call,         \* the reader call in progress, or the last one's result
  historyLog,   \* the lines of <claudeDir>/history.jsonl, in file order
  historyCache, \* ClaudeStorage.historyCache: Null, or the entries loaded
  dirs,         \* <claudeDir>/projects: directory name -> listing, or Missing
  sess,         \* the last getSessions result
  pendingRequests, \* ClaudeStorage.pendingRequests: key -> promise, or NoComp
  comps,        \* the promises of the calls made so far, by number
  callers,      \* what each caller awaits, and what it received
  epoch,        \* how many times invalidateHistoryCache() has run
  cacheEpoch,   \* the epoch at which the entries of historyCache were read
  now,          \* the time, in units of half the debounce window
  debounceTimers, \* ClaudeWatcher.debounceTimers: path -> timer, or NoTimer
  pendingTimers,  \* the timers set and neither cleared nor run: [id, path, due]
  rawEvents,    \* the add/change events chokidar delivered, as handled
  fired,        \* the timers that ran: [path, time, after]
  emitted,      \* the notifications emitted so far, in emission order
  observed,     \* what each subscriber's listeners were called with, in order
  listeners,    \* the watcher's listeners by event name, in registration order
  conn,         \* one /api/conversation/:id/stream connection: its offset,
                \* its getConversationStream() calls, what it was sent
  watcher       \* ClaudeWatcher.watcher: fs is the FSWatcher (NoWatcher for
                \* null); calls and last count and name the start() and
                \* stop() calls made, cut is the number of raw events
                \* received before the last stop()

fileVars ==
  <<fileExists, fileLines, fileOpen, fileIndex, indexPaths, call>>

histVars == <<historyLog, historyCache, dirs, sess>>

engVars == <<pendingRequests, comps, callers, epoch, cacheEpoch>>

timerVars ==
  <<now, debounceTimers, pendingTimers, rawEvents, fired, emitted, observed,
    watcher>>

watchVars == <<timerVars, listeners, conn>>

vars == <<fileVars, histVars, engVars, watchVars>>

----------------------------------------------------------------------------
(* Bounds *)

\* The longest session file the readers are run on, in lines.
MaxLines == 3

\* The most lines the producer appends while stream calls are in progress.
MaxAppends == 2

LineLens == {1, 2}

\* The longest history log getSessions is run on, in lines.
MaxEntries == 3

\* The most promises the engine makes: the one of init() and the calls'.
MaxComps == 3

\* The most invalidateHistoryCache() calls.
MaxInvalidates == 1

\* The most lines the tool appends to the history log while the engine runs.
MaxHistoryAppends == 1

\* The most add/change events the watcher is given.
MaxEvents == 3

SessionId == "s1"

----------------------------------------------------------------------------
(* Lines and bytes *)

RecordKinds == {"user", "assistant", "summary", "other"}

Kinds == RecordKinds \cup {"blank", "bad"}

\* An empty line is blank and has no bytes; a blank line may hold white space.
LensOf(kind) == IF kind = "blank" THEN {0, 1} ELSE LineLens

RECURSIVE SumBytes(_)
SumBytes(lines) ==
  IF lines = <<>> THEN 0 ELSE Head(lines).len + 1 + SumBytes(Tail(lines))

\* fileStat.size: every line's text and newline, less the newline the open
\* last line does not have yet.
FileSize(lines, open) == SumBytes(lines) - (IF open THEN 1 ELSE 0)

\* The byte position where line i (1-based) starts.
LineStart(lines, i) == SumBytes(SubSeq(lines, 1, i - 1))

\* What is left of a line when the read starts off bytes into it: the rest of
\* a record is no JSON value, the rest of white space is white space, and a
\* read that starts on the newline itself sees an empty line.
Fragment(l, off) ==
  [kind |-> IF l.kind = "blank" \/ l.len = off THEN "blank" ELSE "bad",
   len |-> l.len - off]

\* The lines readline yields from createReadStream({start: off}): the stream
\* has no end option, so it runs to the end of the file as it is when read.
RECURSIVE LinesFrom(_, _, _)
LinesFrom(lines, open, off) ==
  IF lines = <<>> THEN <<>>
  ELSE LET l == Head(lines)
           span == IF Len(lines) = 1 /\ open THEN l.len ELSE l.len + 1
       IN IF off >= span THEN LinesFrom(Tail(lines), open, off - span)
          ELSE IF off = 0 THEN <<l>> \o LinesFrom(Tail(lines), open, 0)
          ELSE <<Fragment(l, off)>> \o LinesFrom(Tail(lines), open, 0)

IsMessage(l) == l.kind \in {"user", "assistant"}

RECURSIVE SelectMessages(_)
SelectMessages(lines) ==
  IF lines = <<>> THEN <<>>
  ELSE (IF IsMessage(Head(lines)) THEN <<Head(lines)>> ELSE <<>>)
         \o SelectMessages(Tail(lines))

----------------------------------------------------------------------------
(* getConversation, storage.ts:245-267 *)

\* The loop over the lines: user and assistant are pushed, a summary is
\* unshifted, any other type and a line JSON.parse rejects are dropped.
\* Mutant: a summary is pushed like any message, so it stays in file order.
RECURSIVE ConversationLoopPushSummary(_, _)
ConversationLoopPushSummary(lines, messages) ==
  IF lines = <<>> THEN messages
  ELSE LET msg == Head(lines)
       IN ConversationLoopPushSummary(Tail(lines),
            IF msg.kind \in {"user", "assistant", "summary"}
              THEN Append(messages, msg)
              ELSE messages)

RECURSIVE ConversationLoop(_, _)
ConversationLoop(lines, messages) ==
  IF lines = <<>> THEN messages
  ELSE LET msg == Head(lines)
       IN ConversationLoop(Tail(lines),
            IF msg.kind \in {"user", "assistant"} THEN Append(messages, msg)
            ELSE IF msg.kind = "summary" THEN <<msg>> \o messages
            ELSE messages)

\* content.trim().split("\n").filter(Boolean): empty lines go, a line of
\* white space stays and fails to parse, which drops it as well.
GetConversationBody(lines) ==
  ConversationLoop(SelectSeq(lines, LAMBDA l: ~(l.kind = "blank" /\ l.len = 0)),
                   <<>>)

----------------------------------------------------------------------------
(* getConversationStream, storage.ts:303-331 *)

\* for await (const line of rl): a blank line is consumed, a parsed line is
\* consumed and pushed when it is a user or assistant record, and the first
\* line that does not parse ends the loop unconsumed.
\* Mutant: a line that does not parse is skipped and consumed, as
\* getConversation skips it.
RECURSIVE StreamLoopSkipBad(_, _, _)
StreamLoopSkipBad(ls, messages, bytesConsumed) ==
  IF ls = <<>> THEN [messages |-> messages, bytesConsumed |-> bytesConsumed]
  ELSE LET line == Head(ls)
           lineBytes == line.len + 1
       IN StreamLoopSkipBad(Tail(ls),
            IF IsMessage(line) THEN Append(messages, line) ELSE messages,
            bytesConsumed + lineBytes)

\* Mutant: the loop ends at a line that does not parse, but counts its bytes.
RECURSIVE StreamLoopCountBad(_, _, _)
StreamLoopCountBad(ls, messages, bytesConsumed) ==
  IF ls = <<>> THEN [messages |-> messages, bytesConsumed |-> bytesConsumed]
  ELSE LET line == Head(ls)
           lineBytes == line.len + 1
       IN IF line.kind = "bad"
            THEN [messages |-> messages,
                  bytesConsumed |-> bytesConsumed + lineBytes]
          ELSE StreamLoopCountBad(Tail(ls),
                 IF IsMessage(line) THEN Append(messages, line) ELSE messages,
                 bytesConsumed + lineBytes)

RECURSIVE StreamLoop(_, _, _)
StreamLoop(ls, messages, bytesConsumed) ==
  IF ls = <<>> THEN [messages |-> messages, bytesConsumed |-> bytesConsumed]
  ELSE LET line == Head(ls)
           lineBytes == line.len + 1
       IN IF line.kind = "blank"
            THEN StreamLoop(Tail(ls), messages, bytesConsumed + lineBytes)
          ELSE IF line.kind = "bad"
            THEN [messages |-> messages, bytesConsumed |-> bytesConsumed]
          ELSE StreamLoop(Tail(ls),
                 IF IsMessage(line) THEN Append(messages, line) ELSE messages,
                 bytesConsumed + lineBytes)

\* Mutant: no clamp.
ClampOffsetNone(actualOffset, fileSize) == actualOffset

\* const nextOffset = actualOffset > fileSize ? fileSize : actualOffset
ClampOffset(actualOffset, fileSize) ==
  IF actualOffset > fileSize THEN fileSize ELSE actualOffset

\* Mutant: the bytes consumed are returned without the offset they start at.
StreamResultNoBase(lines, open, fromOffset, fileSize) ==
  LET r == StreamLoop(LinesFrom(lines, open, fromOffset), <<>>, 0)
  IN [messages |-> r.messages,
      nextOffset |-> ClampOffset(r.bytesConsumed, fileSize)]

\* The result of the read, given the size stat returned and the file as the
\* stream finds it.
StreamResult(lines, open, fromOffset, fileSize) ==
  LET r == StreamLoop(LinesFrom(lines, open, fromOffset), <<>>, 0)
  IN [messages |-> r.messages,
      nextOffset |-> ClampOffset(fromOffset + r.bytesConsumed, fileSize)]

\* Lines 285-331 on a file nothing writes to during the call.
ReadFromStatic(lines, open, fromOffset) ==
  LET fileSize == FileSize(lines, open)
  IN IF fromOffset >= fileSize
       THEN [messages |-> <<>>, nextOffset |-> fromOffset]
       ELSE StreamResult(lines, open, fromOffset, fileSize)

\* A consumer that tails the file as the conversation stream does
\* (offset = newOffset after every call), from offset 0 until a call brings
\* no progress.
RECURSIVE TailLoop(_, _, _, _)
TailLoop(lines, open, offset, acc) ==
  LET r == ReadFromStatic(lines, open, offset)
  IN IF r.nextOffset <= offset
       THEN [messages |-> acc \o r.messages, nextOffset |-> r.nextOffset]
       ELSE TailLoop(lines, open, r.nextOffset, acc \o r.messages)

----------------------------------------------------------------------------
(* findSessionFile, storage.ts:196-235 *)

\* Mutant: the scan indexes every session file it comes across.
FindSessionFileIndexAll(id) ==
  IF id \in fileIndex THEN [found |-> TRUE, index |-> fileIndex]
  ELSE IF fileExists
    THEN [found |-> TRUE, index |-> fileIndex \cup {id, "s2"}]
  ELSE [found |-> FALSE, index |-> fileIndex]

\* An indexed id is answered from the index; a miss scans the project
\* directories and indexes the file when it is there.
FindSessionFile(id) ==
  IF id \in fileIndex THEN [found |-> TRUE, index |-> fileIndex]
  ELSE IF fileExists THEN [found |-> TRUE, index |-> fileIndex \cup {id}]
  ELSE [found |-> FALSE, index |-> fileIndex]

----------------------------------------------------------------------------
(* The external producer of the session file *)

CreateFile ==
  /\ ~fileExists
  /\ fileExists' = TRUE
  /\ UNCHANGED <<indexPaths, fileLines, fileOpen, fileIndex, call, histVars, engVars, watchVars>>

\* A whole line in one write, with its newline or (term = FALSE) before it.
AppendLine ==
  /\ fileExists /\ ~fileOpen /\ Len(fileLines) < MaxAppends
  /\ \E kind \in Kinds, term \in BOOLEAN:
       \E len \in LensOf(kind):
         /\ term \/ len > 0
         /\ fileLines' = Append(fileLines, [kind |-> kind, len |-> len])
         /\ fileOpen' = ~term
  /\ UNCHANGED <<indexPaths, fileExists, fileIndex, call, histVars, engVars, watchVars>>

\* The rest of a line whose first bytes were written before: the text
\* becomes a whole record, and the newline follows it.
CompleteLine ==
  /\ fileOpen /\ fileLines[Len(fileLines)].kind = "bad"
  /\ \E kind \in RecordKinds:
       fileLines' = [fileLines EXCEPT ![Len(fileLines)] =
                       [kind |-> kind, len |-> @.len + 1]]
  /\ fileOpen' = FALSE
  /\ UNCHANGED <<indexPaths, fileExists, fileIndex, call, histVars, engVars, watchVars>>

\* The newline of the open last line, whatever it holds.
TerminateLine ==
  /\ fileOpen
  /\ fileOpen' = FALSE
  /\ UNCHANGED <<indexPaths, fileExists, fileLines, fileIndex, call, histVars, engVars, watchVars>>

----------------------------------------------------------------------------
(* The reader calls *)

\* op: which call; pc: where it is; fromOffset, fileSize, messages,
\* nextOffset: the call's own values (fileSize -1: stat returned nothing).
\* The other fields record the call for the properties: resolved (the id had
\* a path), readLines / readOpen (the file as it was read), sizeAtStat (the
\* file's size when stat ran), prevPartial (where the stream call before
\* this one stopped at an open, unparseable last line, or -1).
NoCall ==
  [op |-> "none", pc |-> "done", fromOffset |-> 0, fileSize |-> -1,
   resolved |-> FALSE, messages |-> <<>>, nextOffset |-> 0,
   readLines |-> <<>>, readOpen |-> FALSE, sizeAtStat |-> -1,
   prevPartial |-> -1]

\* The offsets a caller passes: any byte position up to two past the end.
Offsets == 0 .. (FileSize(fileLines, fileOpen) + 2)

\* The position of the open, unparseable last line at which a finished
\* stream call stopped; -1 when it did not stop at one.
StoppedAtPartial(c) ==
  IF /\ c.op = "stream" /\ c.pc = "done" /\ c.readLines # <<>> /\ c.readOpen
     /\ c.readLines[Len(c.readLines)].kind = "bad"
     /\ c.nextOffset = LineStart(c.readLines, Len(c.readLines))
  THEN c.nextOffset ELSE -1

\* getConversationStream(sessionId, fromOffset) is called.
StreamStart ==
  /\ call.pc = "done"
  /\ \E off \in Offsets:
       call' = [NoCall EXCEPT !.op = "stream", !.pc = "locate",
                              !.fromOffset = off]
  /\ UNCHANGED <<indexPaths, fileExists, fileLines, fileOpen, fileIndex, histVars, engVars, watchVars>>

\* Lines 275-279: the path, or { messages: [], nextOffset: 0 }.
StreamLocate ==
  /\ call.op = "stream" /\ call.pc = "locate"
  /\ LET r == FindSessionFile(SessionId)
     IN /\ fileIndex' = r.index
        /\ call' = IF r.found
                     THEN [call EXCEPT !.pc = "stat", !.resolved = TRUE]
                     ELSE [call EXCEPT !.pc = "done", !.nextOffset = 0]
  /\ UNCHANGED <<indexPaths, fileExists, fileLines, fileOpen, histVars, engVars, watchVars>>

\* Lines 285-290 and the catch of 332-334: stat, and the early return.
StreamStat ==
  /\ call.op = "stream" /\ call.pc = "stat"
  /\ \E ok \in BOOLEAN:
       LET fileSize == FileSize(fileLines, fileOpen)
       IN call' =
            IF ~ok
              THEN [call EXCEPT !.pc = "done", !.nextOffset = call.fromOffset,
                                !.sizeAtStat = fileSize]
            ELSE IF call.fromOffset >= fileSize
              THEN [call EXCEPT !.pc = "done", !.nextOffset = call.fromOffset,
                                !.fileSize = fileSize, !.sizeAtStat = fileSize]
            ELSE [call EXCEPT !.pc = "read", !.fileSize = fileSize,
                              !.sizeAtStat = fileSize]
  /\ UNCHANGED <<indexPaths, fileExists, fileLines, fileOpen, fileIndex, histVars, engVars, watchVars>>

\* Lines 292-331 and the catch: open, read to the end, the result.
StreamRead ==
  /\ call.op = "stream" /\ call.pc = "read"
  /\ \E ok \in BOOLEAN:
       LET r == StreamResult(fileLines, fileOpen, call.fromOffset, call.fileSize)
       IN call' =
            IF ~ok
              THEN [call EXCEPT !.pc = "done", !.nextOffset = call.fromOffset]
              ELSE [call EXCEPT !.pc = "done", !.messages = r.messages,
                                !.nextOffset = r.nextOffset,
                                !.readLines = fileLines, !.readOpen = fileOpen]
  /\ UNCHANGED <<indexPaths, fileExists, fileLines, fileOpen, fileIndex, histVars, engVars, watchVars>>

\* The whole of getConversationStream between two writes of the producer,
\* for a consumer that starts at 0 or goes on from the last nextOffset.
ReadFromRun ==
  /\ call.pc = "done"
  /\ LET f == FindSessionFile(SessionId)
     IN /\ fileIndex' = f.index
        /\ \E off \in {0, call.nextOffset}:
             LET r == ReadFromStatic(fileLines, fileOpen, off)
                 start == [NoCall EXCEPT !.op = "stream", !.fromOffset = off,
                                         !.prevPartial = StoppedAtPartial(call)]
             IN call' =
                  IF ~f.found THEN start
                  ELSE [start EXCEPT
                          !.resolved = TRUE,
                          !.fileSize = FileSize(fileLines, fileOpen),
                          !.sizeAtStat = FileSize(fileLines, fileOpen),
                          !.messages = r.messages, !.nextOffset = r.nextOffset,
                          !.readLines = fileLines, !.readOpen = fileOpen]
  /\ UNCHANGED <<indexPaths, fileExists, fileLines, fileOpen, histVars, engVars, watchVars>>

\* getConversation(sessionId), lines 239-267: [] for an unresolved id and
\* for a file that cannot be read (fileSize 0 marks a file that was read).
ConversationRun ==
  /\ call.pc = "done"
  /\ LET f == FindSessionFile(SessionId)
     IN /\ fileIndex' = f.index
        /\ \E ok \in BOOLEAN:
             call' = [NoCall EXCEPT
                        !.op = "conv", !.resolved = f.found,
                        !.messages = IF f.found /\ ok
                                       THEN GetConversationBody(fileLines)
                                       ELSE <<>>,
                        !.readLines = IF f.found /\ ok THEN fileLines ELSE <<>>,
                        !.readOpen = f.found /\ ok /\ fileOpen,
                        !.fileSize = IF f.found /\ ok THEN 0 ELSE -1]
  /\ UNCHANGED <<indexPaths, fileExists, fileLines, fileOpen, histVars, engVars, watchVars>>

\* The tail loop on the file as it is, nothing writing to it meanwhile.
TailRun ==
  /\ call.pc = "done" /\ fileExists
  /\ LET r == TailLoop(fileLines, fileOpen, 0, <<>>)
     IN call' = [NoCall EXCEPT !.op = "tail", !.resolved = TRUE,
                               !.messages = r.messages,
                               !.nextOffset = r.nextOffset,
                               !.readLines = fileLines, !.readOpen = fileOpen,
                               !.fileSize = FileSize(fileLines, fileOpen)]
  /\ fileIndex' = fileIndex \cup {SessionId}
  /\ UNCHANGED <<indexPaths, fileExists, fileLines, fileOpen, histVars, engVars, watchVars>>

----------------------------------------------------------------------------
(* The history log and the project directories at rest *)

\* historyCache is null, or an array of entries.
Null == [loaded |-> FALSE, entries |-> <<>>]

Loaded(entries) == [loaded |-> TRUE, entries |-> entries]

\* A directory of <claudeDir>/projects that readdir cannot list, and one it
\* lists.
Missing == [exists |-> FALSE, files |-> <<>>]

Listed(files) == [exists |-> TRUE, files |-> files]

\* ids is the session id each entry came to, for the properties.
NoSess == [done |-> FALSE, sessions |-> <<>>, ids |-> <<>>, entries |-> <<>>]

\* No history log, no project directory, nothing loaded.
HistoryIdle ==
  /\ historyLog = <<>>
  /\ historyCache = Null
  /\ dirs = <<>>
  /\ sess = NoSess

\* The ids whose index entries are followed, fileIndex.get(id) of an id
\* that has none, and the index without entries.
IndexIds == {"a", "b"}

NoDir == <<>>

NoPaths == [id \in IndexIds |-> NoDir]

\* No session file, nothing indexed, no reader call.
FilesIdle ==
  /\ fileExists = FALSE
  /\ fileLines = <<>>
  /\ fileOpen = FALSE
  /\ fileIndex = {}
  /\ indexPaths = NoPaths
  /\ call = NoCall

\* The keys of dedupe: "getSessions" and `getConversation:${sessionId}`.
KeySessions == "getSessions"

KeyConversation == "getConversation:s1"

Keys == {KeySessions, KeyConversation}

\* The key of a call that does not go through dedupe.
NoKey == ""

Callers == {"c1", "c2"}

\* pendingRequests.get(key) of a key that is not set.
NoComp == 0

NoCaller ==
  [st |-> "idle", api |-> "", comp |-> NoComp, result |-> <<>>,
   failed |-> FALSE, entries |-> <<>>,
   startEpoch |-> 0, usedEpoch |-> 0, overlap |-> {}, from |-> "request"]

\* No call made, nothing in flight.
EngineIdle ==
  /\ pendingRequests = [k \in Keys |-> NoComp]
  /\ comps = <<>>
  /\ callers = [c \in Callers |-> NoCaller]
  /\ epoch = 0
  /\ cacheEpoch = 0

\* A watched path is [dir, stem, suffix]: <dir>/<stem><suffix>.  The history
\* log lies in the claude directory itself, a session file and a file that
\* is no log in a project directory; the name of one session file ends in
\* "history.jsonl".
HistoryPath == [dir |-> "claude", stem |-> "history", suffix |-> ".jsonl"]

SessionPath == [dir |-> "proj", stem |-> "s1", suffix |-> ".jsonl"]

ShadowPath == [dir |-> "proj", stem |-> "old-history", suffix |-> ".jsonl"]

OtherPath == [dir |-> "proj", stem |-> "notes", suffix |-> ".txt"]

Paths == {HistoryPath, SessionPath, ShadowPath, OtherPath}

\* debounceTimers.get(path) of a path that has no timer.
NoTimer == 0

\* The listeners of a subscriber, by event name.
Subscribers == {"u1", "u2"}

Subscriptions ==
  [u1 |-> {"historyChange", "sessionChange", "projectChange"},
   u2 |-> {"sessionChange", "projectChange"}]

\* The listeners the server registers on the watcher when it is created:
\* the engine's own, before any consumer's.
ServerListeners ==
  [historyChange |-> <<"invalidate">>, sessionChange |-> <<"index">>]

\* A watcher that has seen no event.
\* No stream connection has been made.
NoConn ==
  [isConnected |-> FALSE, offset |-> 0, reads |-> <<>>, written |-> <<>>]

\* this.watcher of a watcher that is not started: null.
NoWatcher == 0

\* The watcher as the constructor leaves it.
Constructed == [fs |-> NoWatcher, calls |-> 0, last |-> "none", cut |-> 0]

\* The watcher after the start() of createServer, part_001:208.
Started == [fs |-> 1, calls |-> 1, last |-> "start", cut |-> 0]

WatcherIdle ==
  /\ listeners = ServerListeners
  /\ conn = NoConn
  /\ watcher = Started
  /\ now = 0
  /\ debounceTimers = [p \in Paths |-> NoTimer]
  /\ pendingTimers = {}
  /\ rawEvents = <<>>
  /\ fired = <<>>
  /\ emitted = <<>>
  /\ observed = [u \in Subscribers |-> <<>>]

----------------------------------------------------------------------------
(* SpecStream: stream calls step by step, the producer writing meanwhile *)

InitStream ==
  /\ FilesIdle
  /\ HistoryIdle
  /\ EngineIdle
  /\ WatcherIdle

NextStream ==
  \/ CreateFile
  \/ AppendLine
  \/ CompleteLine
  \/ TerminateLine
  \/ StreamStart
  \/ StreamLocate
  \/ StreamStat
  \/ StreamRead

SpecStream == InitStream /\ [][NextStream]_vars

----------------------------------------------------------------------------
(* SpecRead: whole reader calls on every file of up to MaxLines lines *)

LineValues == UNION {[kind: {k}, len: LensOf(k)] : k \in Kinds}

SeqsUpTo(S, n) == UNION {[1..m -> S] : m \in 0..n}

InitRead ==
  /\ fileExists \in BOOLEAN
  /\ fileLines \in SeqsUpTo(LineValues, MaxLines)
  /\ fileOpen \in BOOLEAN
  /\ fileExists \/ (fileLines = <<>> /\ ~fileOpen)
  /\ fileOpen => fileLines # <<>> /\ fileLines[Len(fileLines)].len > 0
  /\ fileIndex = {}
  /\ indexPaths = NoPaths
  /\ call = NoCall
  /\ HistoryIdle
  /\ EngineIdle
  /\ WatcherIdle

NextRead ==
  \/ CompleteLine
  \/ TerminateLine
  \/ ReadFromRun
  \/ ConversationRun
  \/ TailRun

SpecRead == InitRead /\ [][NextRead]_vars

----------------------------------------------------------------------------
(* The session resolver, storage.ts:102-194 *)

\* A project path and a directory name are sequences of characters.
ProjectP == <<"/", "p">>

ProjectQ == <<"/", "q", ".", "r">>

Projects == {ProjectP, ProjectQ}

\* path.replace(/[/.]/g, "-")
EncodeProjectPath(path) ==
  [i \in 1..Len(path) |-> IF path[i] \in {"/", "."} THEN "-" ELSE path[i]]

\* projectPath.split("/")
RECURSIVE SplitSlash(_, _, _)
SplitSlash(path, part, parts) ==
  IF path = <<>> THEN Append(parts, part)
  ELSE IF Head(path) = "/"
    THEN SplitSlash(Tail(path), <<>>, Append(parts, part))
    ELSE SplitSlash(Tail(path), Append(part, Head(path)), parts)

\* parts[parts.length - 1] || projectPath, the empty parts filtered out
GetProjectName(projectPath) ==
  LET parts == SelectSeq(SplitSlash(projectPath, <<>>, <<>>),
                         LAMBDA x: x # <<>>)
  IN IF parts # <<>> THEN parts[Len(parts)] ELSE projectPath

\* An entry's sessionId when it has none (undefined and "" are both falsy).
NoId == ""

\* A file of a listing is [base, ext, mtime, gone]: base + ext is its name.
Jsonl == ".jsonl"

\* A file the directory lists may be gone by the time it is stat'ed.
NoFile == [base |-> "", ext |-> "", mtime |-> -1, gone |-> FALSE]

\* No distance is negative: -1 stands for the initial Infinity.
Infinity == -1

LessDiffOrEqual(timeDiff, closestTimeDiff) ==
  closestTimeDiff = Infinity \/ timeDiff <= closestTimeDiff

\* timeDiff < closestTimeDiff, closestTimeDiff starting at Infinity
LessDiff(timeDiff, closestTimeDiff) ==
  closestTimeDiff = Infinity \/ timeDiff < closestTimeDiff

\* Math.abs(mtime - timestamp)
Abs(x) == IF x < 0 THEN -x ELSE x

\* Lines 175-184: the closest file so far and its distance.
RECURSIVE ClosestLoop(_, _, _, _)
ClosestLoop(fileStats, timestamp, closestFile, closestTimeDiff) ==
  IF fileStats = <<>> THEN closestFile
  ELSE LET f == Head(fileStats)
           timeDiff == Abs(f.mtime - timestamp)
       IN IF LessDiff(timeDiff, closestTimeDiff)
            THEN ClosestLoop(Tail(fileStats), timestamp, f, timeDiff)
            ELSE ClosestLoop(Tail(fileStats), timestamp, closestFile,
                             closestTimeDiff)

\* findSessionByTimestamp: null when readdir throws (no such directory), when
\* a stat throws and when no .jsonl file is listed, else
\* basename(closestFile, ".jsonl").
FindSessionByTimestamp(encodedProject, timestamp) ==
  IF encodedProject \notin DOMAIN dirs \/ ~dirs[encodedProject].exists
    THEN NoId
    ELSE LET jsonlFiles == SelectSeq(dirs[encodedProject].files,
                                     LAMBDA f: f.ext = Jsonl)
             closestFile == ClosestLoop(jsonlFiles, timestamp, NoFile, Infinity)
         IN IF \E i \in 1..Len(jsonlFiles): jsonlFiles[i].gone THEN NoId
            ELSE IF closestFile # NoFile THEN closestFile.base ELSE NoId

\* Lines 118-125: the entry's own id, or the one found by timestamp.
EntrySessionId(entry) ==
  IF entry.sessionId # NoId THEN entry.sessionId
  ELSE FindSessionByTimestamp(EncodeProjectPath(entry.project),
                              entry.timestamp)

MakeSession(sessionId, entry) ==
  [id |-> sessionId, display |-> entry.display,
   timestamp |-> entry.timestamp, project |-> entry.project,
   projectName |-> GetProjectName(entry.project)]

RECURSIVE SessionsLoopNoSeen(_, _, _)
SessionsLoopNoSeen(entries, sessions, seenIds) ==
  IF entries = <<>> THEN sessions
  ELSE LET entry == Head(entries)
           sessionId == EntrySessionId(entry)
       IN IF sessionId = NoId
            THEN SessionsLoopNoSeen(Tail(entries), sessions, seenIds)
            ELSE SessionsLoopNoSeen(Tail(entries),
                                    Append(sessions,
                                           MakeSession(sessionId, entry)),
                                    seenIds \cup {sessionId})

\* Lines 117-139.
RECURSIVE SessionsLoop(_, _, _)
SessionsLoop(entries, sessions, seenIds) ==
  IF entries = <<>> THEN sessions
  ELSE LET entry == Head(entries)
           sessionId == EntrySessionId(entry)
       IN IF sessionId = NoId \/ sessionId \in seenIds
            THEN SessionsLoop(Tail(entries), sessions, seenIds)
            ELSE SessionsLoop(Tail(entries),
                              Append(sessions, MakeSession(sessionId, entry)),
                              seenIds \cup {sessionId})

SortsBeforeAscending(a, b) == a.timestamp - b.timestamp < 0

\* (a, b) => b.timestamp - a.timestamp is negative: a sorts before b.
SortsBefore(a, b) == b.timestamp - a.timestamp < 0

\* Array.prototype.sort is stable: an element goes behind every element
\* that does not sort after it.
RECURSIVE InsertSession(_, _)
InsertSession(sorted, x) ==
  IF sorted = <<>> THEN <<x>>
  ELSE IF SortsBefore(x, Head(sorted)) THEN <<x>> \o sorted
  ELSE <<Head(sorted)>> \o InsertSession(Tail(sorted), x)

RECURSIVE SortSessions(_, _)
SortSessions(sessions, sorted) ==
  IF sessions = <<>> THEN sorted
  ELSE SortSessions(Tail(sessions), InsertSession(sorted, Head(sessions)))

\* The body of getSessions on the entries given, lines 114-141.
GetSessionsBody(entries) ==
  SortSessions(SessionsLoop(entries, <<>>, {}), <<>>)

\* loadHistoryCache, lines 59-73: the lines that parse, in file order; a
\* missing log gives [].
ParseHistory(log) ==
  LET lines == SelectSeq(log, LAMBDA l: l.json)
  IN [i \in 1..Len(lines) |->
        [sessionId |-> lines[i].sessionId, project |-> lines[i].project,
         timestamp |-> lines[i].timestamp, display |-> lines[i].display]]

\* getSessions() with nothing else running: the entries of the cache, or of
\* a load that fills it.
GetSessionsRun ==
  /\ LET entries == IF historyCache # Null THEN historyCache.entries
                                            ELSE ParseHistory(historyLog)
     IN /\ historyCache' = Loaded(entries)
        /\ sess' = [done |-> TRUE, sessions |-> GetSessionsBody(entries),
                    ids |-> [i \in 1..Len(entries) |->
                               EntrySessionId(entries[i])],
                    entries |-> entries]
  /\ UNCHANGED <<historyLog, dirs, fileVars, engVars, watchVars>>

----------------------------------------------------------------------------
(* SpecSessions: getSessions on every history log of up to MaxEntries      *)
(* lines, and on every directory listing                                   *)

Timestamps == {1, 2}

Mtimes == {0, 1, 3}

SessionIds == {"a", "b", "d"}

\* What a line of the log may hold, its display apart: an entry with or
\* without a sessionId, or text that JSON.parse rejects.
EntryValues ==
  [json: {TRUE}, sessionId: SessionIds \cup {NoId}, project: Projects,
   timestamp: Timestamps]
  \cup {[json |-> FALSE, sessionId |-> NoId, project |-> ProjectP,
         timestamp |-> 1]}

\* The display of a line tells the lines apart: it is the line's number.
Numbered(values) ==
  [i \in 1..Len(values) |->
     [json |-> values[i].json, sessionId |-> values[i].sessionId,
      project |-> values[i].project, timestamp |-> values[i].timestamp,
      display |-> i]]

\* Three session files and a file that is not one.
Files ==
  [base: {"a", "b", "c"}, ext: {Jsonl}, mtime: Mtimes, gone: BOOLEAN]
  \cup [base: {"n"}, ext: {".txt"}, mtime: Mtimes, gone: BOOLEAN]

\* Every listing of up to three of the files, in any order, with any mtimes.
Listings ==
  {l \in SeqsUpTo(Files, 3):
     \A i, j \in 1..Len(l): i # j => l[i].base # l[j].base}

DirP == EncodeProjectPath(ProjectP)

DirQ == EncodeProjectPath(ProjectQ)

\* Timestamp 1 is closest to a, timestamp 2 as close to b as to a.
FixedListing ==
  <<[base |-> "b", ext |-> Jsonl, mtime |-> 3, gone |-> FALSE],
    [base |-> "a", ext |-> Jsonl, mtime |-> 1, gone |-> FALSE]>>

InitSessions ==
  /\ FilesIdle
  /\ EngineIdle
  /\ WatcherIdle
  /\ historyCache = Null
  /\ sess = NoSess
  /\ \/ /\ historyLog \in {Numbered(v) : v \in SeqsUpTo(EntryValues, MaxEntries)}
        /\ dirs \in {(DirP :> Listed(FixedListing)) @@ (DirQ :> q) :
                       q \in {Missing, Listed(<<>>)}}
     \/ /\ historyLog \in
             {Numbered(<<e>>) :
                e \in {v \in EntryValues: v.json /\ v.sessionId = NoId}}
        /\ dirs \in {(DirP :> Listed(l)) @@ (DirQ :> q) :
                       l \in Listings, q \in {Missing, Listed(FixedListing)}}

NextSessions == GetSessionsRun

SpecSessions == InitSessions /\ [][NextSessions]_vars

----------------------------------------------------------------------------
(* The engine under concurrent calls: dedupe, the history cache and its    *)
(* invalidation, storage.ts:24-26, 57-100, 111-156, 237-269                *)

\* A promise is [api, key, pc, entries, readEpoch, result, failed].  pc:
\* "load" is awaiting readFile, "read" has the content and awaits its turn,
\* "body" has its entries and runs, "settled" has its value or its error and
\* awaits the finally callback, "done" has given it to the callers.
NewComp(api, key, pc, entries, readEpoch) ==
  [api |-> api, key |-> key, pc |-> pc, entries |-> entries,
   readEpoch |-> readEpoch, result |-> <<>>, failed |-> FALSE]

\* The project of an entry that has none.
Undefined == <<"undefined">>

\* The loop of getSessions throws a TypeError: encodeProjectPath calls
\* path.replace and getProjectName projectPath.split on an entry's project,
\* which is undefined for an entry without one (storage.ts:103, 107).
RECURSIVE SessionsThrows(_, _)
SessionsThrows(entries, seenIds) ==
  IF entries = <<>> THEN FALSE
  ELSE LET entry == Head(entries)
       IN IF entry.sessionId = NoId /\ entry.project = Undefined THEN TRUE
          ELSE LET sessionId == EntrySessionId(entry)
               IN IF sessionId = NoId \/ sessionId \in seenIds
                    THEN SessionsThrows(Tail(entries), seenIds)
                  ELSE IF entry.project = Undefined THEN TRUE
                  ELSE SessionsThrows(Tail(entries), seenIds \cup {sessionId})

\* A promise that has given its value away: only the callers hold the value.
Done(comp) == NewComp(comp.api, comp.key, "done", <<>>, 0)

\* this.historyCache ?? (await this.loadHistoryCache())
HistoryStart(api, key) ==
  IF historyCache # Null
    THEN NewComp(api, key, "body", historyCache.entries, cacheEpoch)
    ELSE NewComp(api, key, "load", <<>>, 0)

ExistingNone(key) == NoComp

\* const existing = this.pendingRequests.get(key)
Existing(key) == pendingRequests[key]

\* The promises that other callers' calls of this api await right now.
InProgress(c, api) ==
  {callers[d].comp : d \in {x \in Callers \ {c}:
                              callers[x].st = "waiting" /\ callers[x].api = api}}

Awaiting(c, api, k) ==
  [st |-> "waiting", api |-> api, comp |-> k, result |-> <<>>,
   failed |-> FALSE, entries |-> <<>>,
   startEpoch |-> epoch, usedEpoch |-> 0, overlap |-> InProgress(c, api),
   from |-> "request"]

\* dedupe(key, fn): the promise in flight for the key, or a new one, set
\* under the key.
Dedupe(c, api, key, started) ==
  LET existing == Existing(key)
  IN IF existing # NoComp
       THEN /\ callers' = [callers EXCEPT ![c] = Awaiting(c, api, existing)]
            /\ UNCHANGED <<pendingRequests, comps>>
       ELSE /\ Len(comps) < MaxComps
            /\ comps' = Append(comps, started)
            /\ pendingRequests' =
                 [pendingRequests EXCEPT ![key] = Len(comps) + 1]
            /\ callers' =
                 [callers EXCEPT ![c] = Awaiting(c, api, Len(comps) + 1)]

\* The server calls the engine once init() has returned.
Serving == comps[1].pc = "done"

CallGetSessions(c) ==
  /\ Serving /\ callers[c].st # "waiting"
  /\ Dedupe(c, "getSessions", KeySessions,
            HistoryStart("getSessions", KeySessions))
  /\ UNCHANGED <<epoch, cacheEpoch, fileVars, histVars, watchVars>>

\* getProjects does not go through dedupe: every call has its own promise.
CallGetProjects(c) ==
  /\ Serving /\ callers[c].st # "waiting"
  /\ Len(comps) < MaxComps
  /\ comps' = Append(comps, HistoryStart("getProjects", NoKey))
  /\ callers' = [callers EXCEPT ![c] =
                   Awaiting(c, "getProjects", Len(comps) + 1)]
  /\ UNCHANGED <<pendingRequests, epoch, cacheEpoch, fileVars, histVars, watchVars>>

CallGetConversation(c) ==
  /\ Serving /\ callers[c].st # "waiting"
  /\ Dedupe(c, "getConversation", KeyConversation,
            NewComp("getConversation", KeyConversation, "body", <<>>, 0))
  /\ UNCHANGED <<epoch, cacheEpoch, fileVars, histVars, watchVars>>

\* readFile(historyPath) reads the log as it is at this moment.
LoadRead(k) ==
  /\ comps[k].pc = "load"
  /\ comps' = [comps EXCEPT ![k].pc = "read",
                            ![k].entries = ParseHistory(historyLog),
                            ![k].readEpoch = epoch]
  /\ UNCHANGED <<pendingRequests, callers, epoch, cacheEpoch, fileVars,
                 histVars, watchVars>>

\* projects.add(entry.project) for the entries that have one; the sorted
\* array of a set of strings is the set.
GetProjectsBody(entries) ==
  {entries[i].project : i \in {j \in 1..Len(entries):
                                 entries[j].project # Undefined}}

\* A promise gives its value to the callers that await it.
Deliver(k, result) ==
  [c \in Callers |->
     IF callers[c].st = "waiting" /\ callers[c].comp = k
       THEN [callers[c] EXCEPT !.st = "done", !.result = result,
                               !.failed = comps[k].failed,
                               !.entries = comps[k].entries,
                               !.usedEpoch = comps[k].readEpoch]
       ELSE callers[c]]

\* The continuation of loadHistoryCache: this.historyCache = entries, and
\* the caller of the load goes on with the entries.
LoadAssign(k) ==
  /\ comps[k].pc = "read"
  /\ historyCache' = Loaded(comps[k].entries)
  /\ cacheEpoch' = comps[k].readEpoch
  /\ comps' = [comps EXCEPT ![k] = IF comps[k].api = "init" THEN Done(@)
                                    ELSE [@ EXCEPT !.pc = "body"]]
  /\ UNCHANGED <<pendingRequests, callers, epoch, fileVars, historyLog, dirs,
                 sess, watchVars>>

\* The loop of getSessions and its sort, on the entries it has.
SessionsBody(k) ==
  /\ comps[k].pc = "body" /\ comps[k].api = "getSessions"
  /\ comps' = [comps EXCEPT
                 ![k].pc = "settled",
                 ![k].failed = SessionsThrows(comps[k].entries, {}),
                 ![k].result = IF SessionsThrows(comps[k].entries, {})
                                 THEN <<>>
                                 ELSE GetSessionsBody(comps[k].entries)]
  /\ UNCHANGED <<pendingRequests, callers, epoch, cacheEpoch, fileVars,
                 histVars, watchVars>>

\* The loop of getProjects, on the entries it has; its promise resolves.
ProjectsBody(k) ==
  /\ comps[k].pc = "body" /\ comps[k].api = "getProjects"
  /\ comps' = [comps EXCEPT ![k] = Done(@)]
  /\ callers' = Deliver(k, GetProjectsBody(comps[k].entries))
  /\ UNCHANGED <<pendingRequests, epoch, cacheEpoch, fileVars, histVars, watchVars>>

\* The body of getConversation: the file is found and read whole.
ConversationBody(k) ==
  /\ comps[k].pc = "body" /\ comps[k].api = "getConversation"
  /\ LET f == FindSessionFile(SessionId)
     IN /\ fileIndex' = f.index
        /\ comps' = [comps EXCEPT
                       ![k].pc = "settled",
                       ![k].result = IF f.found
                                       THEN GetConversationBody(fileLines)
                                       ELSE <<>>]
  /\ UNCHANGED <<indexPaths, pendingRequests, callers, epoch, cacheEpoch, fileExists,
                 fileLines, fileOpen, call, histVars, watchVars>>

\* The body of getConversationStream from offset 0: the file is found and
\* read; its promise resolves.
StreamBody(k) ==
  /\ comps[k].pc = "body" /\ comps[k].api = "getConversationStream"
  /\ LET f == FindSessionFile(SessionId)
     IN /\ fileIndex' = f.index
        /\ callers' = Deliver(k, IF f.found
                                   THEN ReadFromStatic(fileLines, fileOpen,
                                                       0).messages
                                   ELSE <<>>)
  /\ comps' = [comps EXCEPT ![k] = Done(@)]
  /\ UNCHANGED <<indexPaths, pendingRequests, epoch, cacheEpoch, fileExists, fileLines,
                 fileOpen, call, histVars, watchVars>>

UnregisterOnSuccess(k) ==
  IF comps[k].failed THEN pendingRequests
  ELSE [pendingRequests EXCEPT ![comps[k].key] = NoComp]

\* this.pendingRequests.delete(key)
Unregister(k) == [pendingRequests EXCEPT ![comps[k].key] = NoComp]

\* .finally(() => this.pendingRequests.delete(key)), and the promise that
\* dedupe returned settles as the body's did, with its value or its error.
Finally(k) ==
  /\ comps[k].pc = "settled"
  /\ pendingRequests' = Unregister(k)
  /\ comps' = [comps EXCEPT ![k] = Done(@)]
  /\ callers' = Deliver(k, comps[k].result)
  /\ UNCHANGED <<epoch, cacheEpoch, fileVars, histVars, watchVars>>

\* The listeners of an event, as a set.
ListenersOf(event) ==
  {listeners[event][i] : i \in 1..Len(listeners[event])}

\* A historyChange notification reaches the engine's listener:
\* invalidateHistoryCache()
Invalidate ==
  /\ epoch < MaxInvalidates
  /\ "invalidate" \in ListenersOf("historyChange")
  /\ historyCache' = Null
  /\ epoch' = epoch + 1
  /\ UNCHANGED <<pendingRequests, comps, callers, cacheEpoch, fileVars,
                 historyLog, dirs, sess, watchVars>>

\* The entry the log starts with, and the entries the tool appends to it.
FirstEntry ==
  [json |-> TRUE, sessionId |-> "a", project |-> ProjectP, timestamp |-> 1]

\* A line that parses to an entry without sessionId and without project.
BadEntry ==
  [json |-> TRUE, sessionId |-> NoId, project |-> Undefined, timestamp |-> 2]

\* The entry of a new session of another project.
GoodEntry ==
  [json |-> TRUE, sessionId |-> "b", project |-> ProjectQ, timestamp |-> 2]

AppendedEntries ==
  {e \in EntryValues: e.json /\ e.project = ProjectQ /\ e.timestamp = 2
                      /\ e.sessionId = "b"}

AppendHistory ==
  /\ Len(historyLog) < 1 + MaxHistoryAppends
  /\ \E e \in AppendedEntries:
       historyLog' = Numbered(Append(historyLog, e))
  /\ UNCHANGED <<historyCache, dirs, sess, fileVars, engVars, watchVars>>

\* The tool appends a whole record to the session file.
AppendRecord ==
  /\ fileExists /\ ~fileOpen /\ fileLines = <<>>
  /\ fileLines' = Append(fileLines, [kind |-> "user", len |-> 1])
  /\ UNCHANGED <<indexPaths, fileExists, fileOpen, fileIndex, call, histVars, engVars, watchVars>>

\* After construction and the call of init(): buildFileIndex has indexed
\* the session file, loadHistoryCache awaits readFile.
Init ==
  /\ fileExists = TRUE
  /\ fileLines = <<>>
  /\ fileOpen = FALSE
  /\ fileIndex = {SessionId}
  /\ indexPaths = NoPaths
  /\ call = NoCall
  /\ historyLog = Numbered(<<FirstEntry>>)
  /\ historyCache = Null
  /\ dirs = (DirP :> Listed(FixedListing)) @@ (DirQ :> Missing)
  /\ sess = NoSess
  /\ pendingRequests = [k \in Keys |-> NoComp]
  /\ comps = <<NewComp("init", NoKey, "load", <<>>, 0)>>
  /\ callers = [c \in Callers |-> NoCaller]
  /\ epoch = 0
  /\ cacheEpoch = 0
  /\ WatcherIdle

Next ==
  \/ \E c \in Callers: CallGetSessions(c)
  \/ \E c \in Callers: CallGetProjects(c)
  \/ \E c \in Callers: CallGetConversation(c)
  \/ \E k \in 1..Len(comps): LoadRead(k)
  \/ \E k \in 1..Len(comps): LoadAssign(k)
  \/ \E k \in 1..Len(comps): SessionsBody(k)
  \/ \E k \in 1..Len(comps): ProjectsBody(k)
  \/ \E k \in 1..Len(comps): ConversationBody(k)
  \/ \E k \in 1..Len(comps): Finally(k)
  \/ Invalidate
  \/ AppendHistory
  \/ AppendRecord

Spec == Init /\ [][Next]_vars

\* SpecQuiet: the engine on a log that does not change during the calls.
\* It starts either as Spec does, the log holding perhaps an entry
\* getSessions throws on, or after init() loaded the cache and the tool
\* then appended an entry, the notification of which has yet to come.
InitQuiet ==
  /\ fileExists = TRUE
  /\ fileLines = <<>>
  /\ fileOpen = FALSE
  /\ fileIndex = {SessionId}
  /\ indexPaths = NoPaths
  /\ call = NoCall
  /\ dirs = (DirP :> Listed(FixedListing)) @@ (DirQ :> Missing)
  /\ sess = NoSess
  /\ pendingRequests = [k \in Keys |-> NoComp]
  /\ callers = [c \in Callers |-> NoCaller]
  /\ epoch = 0
  /\ cacheEpoch = 0
  /\ WatcherIdle
  /\ \/ /\ historyLog \in {Numbered(<<FirstEntry>>),
                            Numbered(<<FirstEntry, BadEntry>>)}
        /\ historyCache = Null
        /\ comps = <<NewComp("init", NoKey, "load", <<>>, 0)>>
     \/ /\ historyLog = Numbered(<<FirstEntry, GoodEntry>>)
        /\ historyCache = Loaded(ParseHistory(Numbered(<<FirstEntry>>)))
        /\ comps = <<Done(NewComp("init", NoKey, "load", <<>>, 0))>>

NextQuiet ==
  \/ \E c \in Callers: CallGetSessions(c)
  \/ \E c \in Callers: CallGetProjects(c)
  \/ \E c \in Callers: CallGetConversation(c)
  \/ \E k \in 1..Len(comps): LoadRead(k)
  \/ \E k \in 1..Len(comps): LoadAssign(k)
  \/ \E k \in 1..Len(comps): SessionsBody(k)
  \/ \E k \in 1..Len(comps): ProjectsBody(k)
  \/ \E k \in 1..Len(comps): ConversationBody(k)
  \/ \E k \in 1..Len(comps): Finally(k)
  \/ Invalidate

SpecQuiet == InitQuiet /\ [][NextQuiet]_vars

----------------------------------------------------------------------------
(* The stream consumers of the server, part_001:51-184 *)

Events == {"historyChange", "sessionChange"}

\* watcher.on(event, listener)
On(event, listener) == [listeners EXCEPT ![event] = Append(@, listener)]

\* Mutant: the cleanup removes every listener of the event.
OffEvery(event, listener) == [listeners EXCEPT ![event] = <<>>]

\* watcher.off(event, listener); a consumer's listener is registered once.
Off(event, listener) ==
  [listeners EXCEPT ![event] = SelectSeq(@, LAMBDA l: l # listener)]

\* The consumer has a listener on the watcher.
Connected(c) == \E event \in Events: c \in ListenersOf(event)

\* GET /api/sessions/stream up to its first await: the consumer's listener
\* is registered, then getSessions() is called.
ConnectSessions(c) ==
  /\ Serving /\ callers[c].st # "waiting" /\ ~Connected(c)
  /\ listeners' = On("historyChange", c)
  /\ Dedupe(c, "getSessions", KeySessions,
            HistoryStart("getSessions", KeySessions))
  /\ UNCHANGED <<epoch, cacheEpoch, fileVars, histVars, timerVars, conn>>

\* GET /api/conversation/:id/stream up to its first await: the consumer's
\* listener is registered, then getConversationStream() is called.
ConnectConversation(c) ==
  /\ Serving /\ callers[c].st # "waiting" /\ ~Connected(c)
  /\ Len(comps) < MaxComps
  /\ listeners' = On("sessionChange", c)
  /\ comps' = Append(comps, NewComp("getConversationStream", NoKey, "body",
                                    <<>>, 0))
  /\ callers' = [callers EXCEPT ![c] =
                   Awaiting(c, "getConversationStream", Len(comps) + 1)]
  /\ UNCHANGED <<pendingRequests, epoch, cacheEpoch, fileVars, histVars,
                 timerVars, conn>>

\* The consumers' listeners of an event, in registration order.
Handlers(event) == SelectSeq(listeners[event], LAMBDA l: l \in Callers)

\* The consumers whose listener is registered before the i-th of hs.
Earlier(hs, i) == {hs[j] : j \in 1..(i - 1)}

\* emit("historyChange"): the engine's listener runs
\* invalidateHistoryCache(), then each consumer's onHistoryChange calls
\* getSessions(): the first finds the cache null and no promise under the
\* key, or joins the one in flight; the others join.  A consumer that still
\* awaits its first getSessions() awaits this one beside it.
EmitHistoryChange ==
  /\ epoch < MaxInvalidates
  /\ "invalidate" \in ListenersOf("historyChange")
  /\ historyCache' = Null
  /\ epoch' = epoch + 1
  /\ LET hs == Handlers("historyChange")
         existing == Existing(KeySessions)
         k == IF existing # NoComp THEN existing ELSE Len(comps) + 1
     IN IF hs = <<>>
          THEN UNCHANGED <<pendingRequests, comps, callers>>
          ELSE /\ existing = NoComp => Len(comps) < MaxComps
               /\ comps' = IF existing # NoComp THEN comps
                            ELSE Append(comps, NewComp("getSessions",
                                                       KeySessions, "load",
                                                       <<>>, 0))
               /\ pendingRequests' =
                    [pendingRequests EXCEPT ![KeySessions] = k]
               /\ callers' =
                    [c \in Callers |->
                       IF /\ \E i \in 1..Len(hs): hs[i] = c
                          /\ callers[c].st # "waiting"
                         THEN [Awaiting(c, "getSessions", k) EXCEPT
                                 !.startEpoch = epoch + 1,
                                 !.from = "onHistoryChange",
                                 !.overlap =
                                   @ \cup IF \E i \in 1..Len(hs):
                                               /\ hs[i] = c
                                               /\ Earlier(hs, i) # {}
                                            THEN {k} ELSE {}]
                         ELSE callers[c]]
  /\ UNCHANGED <<cacheEpoch, fileVars, historyLog, dirs, sess, listeners,
                 timerVars, conn>>

\* The session of a second session file of the project directory.
OtherSessionId == "s2"

\* emit("sessionChange", sessionId, path): the engine's listener runs
\* addToFileIndex(sessionId, path), then the onSessionChange of each
\* consumer of that session calls getConversationStream(), every call with
\* a promise of its own.  The consumers all follow SessionId.
EmitSessionChange(sessionId) ==
  /\ "index" \in ListenersOf("sessionChange")
  /\ fileIndex' = fileIndex \cup {sessionId}
  /\ LET hs == IF sessionId = SessionId THEN Handlers("sessionChange")
               ELSE <<>>
     IN /\ Len(comps) + Len(hs) <= MaxComps
        /\ comps' = comps \o [i \in 1..Len(hs) |->
                                NewComp("getConversationStream", NoKey,
                                        "body", <<>>, 0)]
        /\ callers' =
             [c \in Callers |->
                IF /\ \E i \in 1..Len(hs): hs[i] = c
                   /\ callers[c].st # "waiting"
                  THEN Awaiting(c, "getConversationStream",
                                Len(comps)
                                  + CHOOSE i \in 1..Len(hs): hs[i] = c)
                  ELSE callers[c]]
  /\ UNCHANGED <<indexPaths, pendingRequests, epoch, cacheEpoch, fileExists, fileLines,
                 fileOpen, call, histVars, listeners, timerVars, conn>>

\* The consumer disconnects (abort), or its stream ends: cleanup().
Disconnect(c) ==
  /\ \E event \in Events:
       /\ c \in ListenersOf(event)
       /\ listeners' = Off(event, c)
  /\ UNCHANGED <<fileVars, histVars, engVars, timerVars, conn>>

\* SpecServer: the engine with the stream consumers c1 and c2, c2 calling
\* getSessions() outside a stream as well, and the watcher's notifications;
\* the log does not change.
\* The session file was created after init() built the file index.
ServerOn(log) ==
  /\ fileExists = TRUE
  /\ fileLines = <<[kind |-> "user", len |-> 1]>>
  /\ fileOpen = FALSE
  /\ fileIndex = {}
  /\ indexPaths = NoPaths
  /\ call = NoCall
  /\ historyLog = Numbered(log)
  /\ historyCache = Null
  /\ dirs = (DirP :> Listed(FixedListing)) @@ (DirQ :> Missing)
  /\ sess = NoSess
  /\ pendingRequests = [k \in Keys |-> NoComp]
  /\ comps = <<NewComp("init", NoKey, "load", <<>>, 0)>>
  /\ callers = [c \in Callers |-> NoCaller]
  /\ epoch = 0
  /\ cacheEpoch = 0
  /\ WatcherIdle

InitServer == ServerOn(<<FirstEntry>>)

\* A step of the computation k of a consumer's call.
CompStep(k) ==
  /\ k <= Len(comps)
  /\ \/ LoadRead(k)
     \/ LoadAssign(k)
     \/ SessionsBody(k)
     \/ StreamBody(k)
     \/ Finally(k)

NextServer ==
  \/ \E c \in Callers: ConnectSessions(c)
  \/ \E c \in Callers: ConnectConversation(c)
  \/ \E c \in Callers: Disconnect(c)
  \/ CallGetSessions("c2")
  \/ \E k \in 1..MaxComps: CompStep(k)
  \/ EmitHistoryChange
  \/ EmitSessionChange(SessionId)

\* The event loop runs every continuation that is ready.
SpecServer ==
  /\ InitServer /\ [][NextServer]_vars
  /\ \A k \in 1..MaxComps: WF_vars(CompStep(k))

\* An entry of an older log: it has no sessionId, and the loop of
\* getSessions awaits findSessionByTimestamp for it.
OlderEntry ==
  [json |-> TRUE, sessionId |-> NoId, project |-> ProjectP, timestamp |-> 1]

\* SpecFresh: the consumers and the notifications of SpecServer on a log
\* whose entry has no sessionId, so that a getSessions() computation is in
\* flight over several turns of the event loop even when it starts from the
\* cache.
InitFresh == ServerOn(<<OlderEntry>>)

SpecFresh == InitFresh /\ [][NextServer]_vars

\* SpecFrame: every operation of the engine and the notifications, one
\* consumer following the session file.
NextFrame ==
  \/ \E c \in Callers: CallGetSessions(c)
  \/ \E c \in Callers: CallGetProjects(c)
  \/ \E c \in Callers: CallGetConversation(c)
  \/ ConnectConversation("c1")
  \/ \E k \in 1..Len(comps): LoadRead(k)
  \/ \E k \in 1..Len(comps): LoadAssign(k)
  \/ \E k \in 1..Len(comps): SessionsBody(k)
  \/ \E k \in 1..Len(comps): ProjectsBody(k)
  \/ \E k \in 1..Len(comps): ConversationBody(k)
  \/ \E k \in 1..Len(comps): StreamBody(k)
  \/ \E k \in 1..Len(comps): Finally(k)
  \/ EmitHistoryChange
  \/ \E id \in {SessionId, OtherSessionId}: EmitSessionChange(id)

SpecFrame == InitServer /\ [][NextFrame]_vars

----------------------------------------------------------------------------
(* One conversation stream connection, part_001:122-184 *)

\* The most getConversationStream() calls of the connection: the initial
\* one and those of its onSessionChange handlers.
MaxReads == 3

\* The consumer of the connection.
Consumer == "c1"

\* The byte positions at which the lines start that the loop of
\* getConversationStream pushes: the loop of StreamLoop, with the position
\* of every line it consumes.  A message of the session file is known by
\* the position of its line.
RECURSIVE MessageStarts(_, _, _)
MessageStarts(ls, pos, starts) ==
  IF ls = <<>> THEN starts
  ELSE LET line == Head(ls)
           lineBytes == line.len + 1
       IN IF line.kind = "blank"
            THEN MessageStarts(Tail(ls), pos + lineBytes, starts)
          ELSE IF line.kind = "bad" THEN starts
          ELSE MessageStarts(Tail(ls), pos + lineBytes,
                 IF IsMessage(line) THEN Append(starts, pos) ELSE starts)

\* getConversationStream(sessionId, fromOffset) up to its first await; the
\* argument is the value `offset` has when the call is made.
NewRead(kind, fromOffset) ==
  [kind |-> kind, pc |-> "locate", fromOffset |-> fromOffset,
   fileSize |-> -1, messages |-> <<>>, starts |-> <<>>, nextOffset |-> 0]

\* Lines 122-163: the offset of the query (none, or the end of what the
\* client has), the listener, and the initial getConversationStream().
TailConnect ==
  /\ conn = NoConn
  /\ \E offsetParam \in {0, FileSize(fileLines, fileOpen)}:
       conn' = [isConnected |-> TRUE, offset |-> offsetParam,
                reads |-> <<NewRead("initial", offsetParam)>>,
                written |-> <<>>]
  /\ listeners' = On("sessionChange", Consumer)
  /\ UNCHANGED <<fileVars, histVars, engVars, timerVars>>

\* emit("sessionChange", SessionId, path): the engine's listener runs
\* addToFileIndex, then onSessionChange (lines 135-154) runs up to its
\* await when the consumer's listener is registered.
TailNotify ==
  /\ fileExists
  /\ "index" \in ListenersOf("sessionChange")
  /\ fileIndex' = fileIndex \cup {SessionId}
  /\ IF Consumer \in ListenersOf("sessionChange") /\ conn.isConnected
       THEN /\ Len(conn.reads) < MaxReads
            /\ conn' = [conn EXCEPT !.reads =
                          Append(@, NewRead("handler", conn.offset))]
       ELSE UNCHANGED conn
  /\ UNCHANGED <<indexPaths, fileExists, fileLines, fileOpen, call,
                 histVars, engVars, timerVars, listeners>>

\* storage.ts:275-279 of the i-th call.
TailLocate(i) ==
  /\ conn.reads[i].pc = "locate"
  /\ LET r == FindSessionFile(SessionId)
     IN /\ fileIndex' = r.index
        /\ conn' = [conn EXCEPT !.reads[i] =
                      IF r.found THEN [@ EXCEPT !.pc = "stat"]
                      ELSE [@ EXCEPT !.pc = "settle", !.nextOffset = 0]]
  /\ UNCHANGED <<indexPaths, fileExists, fileLines, fileOpen, call,
                 histVars, engVars, timerVars, listeners>>

\* storage.ts:285-290 and the catch of 332-334 of the i-th call.
TailStat(i) ==
  /\ conn.reads[i].pc = "stat"
  /\ \E ok \in BOOLEAN:
       LET fileSize == FileSize(fileLines, fileOpen)
           c == conn.reads[i]
       IN conn' = [conn EXCEPT !.reads[i] =
                     IF ~ok \/ c.fromOffset >= fileSize
                       THEN [c EXCEPT !.pc = "settle",
                                      !.nextOffset = c.fromOffset]
                       ELSE [c EXCEPT !.pc = "read", !.fileSize = fileSize]]
  /\ UNCHANGED <<fileVars, histVars, engVars, timerVars, listeners>>

\* storage.ts:292-331 and the catch of the i-th call: the stream reads the
\* file, from fromOffset to the end it has now.
TailRead(i) ==
  /\ conn.reads[i].pc = "read"
  /\ \E ok \in BOOLEAN:
       LET c == conn.reads[i]
           r == StreamResult(fileLines, fileOpen, c.fromOffset, c.fileSize)
       IN conn' = [conn EXCEPT !.reads[i] =
                     IF ~ok
                       THEN [c EXCEPT !.pc = "settle",
                                      !.nextOffset = c.fromOffset]
                       ELSE [c EXCEPT
                               !.pc = "settle", !.messages = r.messages,
                               !.nextOffset = r.nextOffset,
                               !.starts =
                                 MessageStarts(
                                   LinesFrom(fileLines, fileOpen,
                                             c.fromOffset),
                                   c.fromOffset, <<>>)]]
  /\ UNCHANGED <<fileVars, histVars, engVars, timerVars, listeners>>

\* The stream of the i-th call ends, the call returns, and the await goes
\* on, lines 141-153 (a handler) and 160-168 (the initial call): offset =
\* nextOffset, then the messages are written to the consumer; a handler
\* writes when there are some.  The streams of two calls are read by the
\* thread pool side by side and end in either order.  A write to a closed
\* connection sends nothing.
TailSettle(i) ==
  /\ conn.reads[i].pc = "settle"
  /\ LET c == conn.reads[i]
     IN conn' = [conn EXCEPT
                   !.reads[i] = [NewRead(c.kind, c.fromOffset) EXCEPT
                                   !.pc = "done"],
                   !.offset = c.nextOffset,
                   !.written = IF conn.isConnected THEN @ \o c.starts
                               ELSE @]
  /\ UNCHANGED <<fileVars, histVars, engVars, timerVars, listeners>>

\* The request is aborted: cleanup(), lines 130-133.
TailClose ==
  /\ conn.isConnected
  /\ conn' = [conn EXCEPT !.isConnected = FALSE]
  /\ listeners' = Off("sessionChange", Consumer)
  /\ UNCHANGED <<fileVars, histVars, engVars, timerVars>>

\* The producer appends a whole record and its newline in one write.
TailAppend ==
  /\ fileExists /\ Len(fileLines) < MaxAppends
  /\ \E kind \in {"user", "other"}:
       fileLines' = Append(fileLines, [kind |-> kind, len |-> 1])
  /\ UNCHANGED <<indexPaths, fileExists, fileOpen, fileIndex, call,
                 histVars, engVars, watchVars>>

\* SpecTail: the connection, the producer of the session file and the
\* watcher's notifications of the file.
InitTail == InitStream

NextTail ==
  \/ CreateFile
  \/ TailAppend
  \/ TailConnect
  \/ TailNotify
  \/ \E i \in 1..Len(conn.reads): TailLocate(i)
  \/ \E i \in 1..Len(conn.reads): TailStat(i)
  \/ \E i \in 1..Len(conn.reads): TailRead(i)
  \/ \E i \in 1..Len(conn.reads): TailSettle(i)
  \/ TailClose

SpecTail == InitTail /\ [][NextTail]_vars

----------------------------------------------------------------------------
(* The change watcher, watcher.ts:47-70 *)

\* debounceMs, 20 ms: the unit of time is 10 ms.
DebounceMs == 2

\* A timer runs late by less than a settle window.
MaxLate == DebounceMs - 1

\* The watcher is run for two settle windows and a late timer.
MaxTime == 2 * DebounceMs + MaxLate

\* filePath.endsWith("history.jsonl")
EndsWithHistory(path) ==
  path.suffix = ".jsonl" /\ path.stem \in {"history", "old-history"}

\* filePath.endsWith(".jsonl")
EndsWithJsonl(path) == path.suffix = ".jsonl"

EmitChangeProjectFirst(path) ==
  IF EndsWithHistory(path) THEN <<[event |-> "historyChange", args |-> <<>>]>>
  ELSE IF EndsWithJsonl(path)
    THEN <<[event |-> "projectChange", args |-> <<path.dir>>],
           [event |-> "sessionChange", args |-> <<path.stem, path>>]>>
  ELSE <<>>

\* emitChange: the notifications of a path, in the order of the emit calls.
\* basename(filePath, ".jsonl") is the stem, basename(dirname(filePath)) the
\* directory.
EmitChange(path) ==
  IF EndsWithHistory(path) THEN <<[event |-> "historyChange", args |-> <<>>]>>
  ELSE IF EndsWithJsonl(path)
    THEN <<[event |-> "sessionChange", args |-> <<path.stem, path>>],
           [event |-> "projectChange", args |-> <<path.dir>>]>>
  ELSE <<>>

\* A new timer's id: timers are numbered in the order they are set.
NextTimer == Len(rawEvents) + 1

ClearTimeoutNever(existing) == pendingTimers

\* clearTimeout(existing), when there is a timer for the path
ClearTimeout(existing) ==
  IF existing # NoTimer THEN {t \in pendingTimers: t.id # existing}
                        ELSE pendingTimers

\* handleChange(path): the FSWatcher delivers an add or change event; a
\* closed one delivers none.  The event
\* is recorded with the time and with whether the path had a timer (joined).
HandleChange(path) ==
  /\ watcher.fs # NoWatcher
  /\ Len(rawEvents) < MaxEvents
  /\ LET existing == debounceTimers[path]
         timer == [id |-> NextTimer, path |-> path, due |-> now + DebounceMs]
     IN /\ pendingTimers' = ClearTimeout(existing) \cup {timer}
        /\ debounceTimers' = [debounceTimers EXCEPT ![path] = timer.id]
        /\ rawEvents' = Append(rawEvents, [path |-> path, time |-> now,
                                           joined |-> existing # NoTimer])
  /\ UNCHANGED <<now, fired, emitted, observed, watcher, listeners, conn,
                 fileVars, histVars, engVars>>

\* What a listener of a notification is called with: the notification, when
\* and for which path it was emitted, and whether the path had a timer in
\* debounceTimers then.
Stamped(notes, path, timers) ==
  [i \in 1..Len(notes) |->
     [event |-> notes[i].event, args |-> notes[i].args, path |-> path,
      time |-> now, keySet |-> timers[path] # NoTimer]]

\* emit(event, ...): the listeners of the event are called one after the
\* other, before emit returns.
Observe(u, stamped) ==
  observed[u] \o SelectSeq(stamped, LAMBDA n: n.event \in Subscriptions[u])

\* The timer's callback: debounceTimers.delete(path), then emitChange(path).
\* A timer runs when it is due or later, never before.
FireTimer(t) ==
  /\ t \in pendingTimers /\ now >= t.due
  /\ pendingTimers' = pendingTimers \ {t}
  /\ debounceTimers' = [debounceTimers EXCEPT ![t.path] = NoTimer]
  /\ LET stamped == Stamped(EmitChange(t.path), t.path, debounceTimers')
     IN /\ emitted' = emitted \o stamped
        /\ observed' = [u \in Subscribers |-> Observe(u, stamped)]
  /\ fired' = Append(fired, [path |-> t.path, time |-> now,
                             after |-> Len(rawEvents)])
  /\ UNCHANGED <<now, rawEvents, watcher, listeners, conn, fileVars, histVars,
                 engVars>>

\* Time passes; a timer runs at most MaxLate after it is due.
Tick ==
  /\ now < MaxTime
  /\ \A t \in pendingTimers: now < t.due + MaxLate
  /\ now' = now + 1
  /\ UNCHANGED <<debounceTimers, pendingTimers, rawEvents, fired, emitted,
                 observed, watcher, listeners, conn, fileVars, histVars,
                 engVars>>

----------------------------------------------------------------------------
(* SpecWatcher: raw events on the watched paths, timers and time *)

InitWatcher ==
  /\ FilesIdle
  /\ HistoryIdle
  /\ EngineIdle
  /\ WatcherIdle

NextWatcher ==
  \/ \E path \in Paths: HandleChange(path)
  \/ \E t \in pendingTimers: FireTimer(t)
  \/ Tick

SpecWatcher == InitWatcher /\ [][NextWatcher]_vars

----------------------------------------------------------------------------
(* start() and stop(), watcher.ts:22-45 and 72-82 *)

\* The most start() and stop() calls made on the watcher.
MaxCalls == 3

\* The paths the files of SpecStop are written at.
StopPaths == {HistoryPath, SessionPath}

\* Lines 23-38: the FSWatcher in this.watcher after start(); watch() makes a
\* new one, known by the number of the call, when there is none.
Watch ==
  IF watcher.fs # NoWatcher THEN watcher.fs ELSE watcher.calls + 1

Start ==
  /\ watcher.calls < MaxCalls
  /\ watcher' = [watcher EXCEPT !.fs = Watch, !.calls = @ + 1,
                                !.last = "start"]
  /\ UNCHANGED <<now, debounceTimers, pendingTimers, rawEvents, fired,
                 emitted, observed, listeners, conn, fileVars, histVars,
                 engVars>>

\* Mutant: the timers of the table are left to run.
ClearTimersNone == pendingTimers

\* Lines 78-80: clearTimeout for every timer of the table.
ClearTimers ==
  {t \in pendingTimers: \A p \in Paths: debounceTimers[p] # t.id}

\* stop(): the FSWatcher is closed and this.watcher is null, the timers are
\* cleared and the table is emptied.
Stop ==
  /\ watcher.calls < MaxCalls
  /\ watcher' = [fs |-> NoWatcher, calls |-> watcher.calls + 1,
                 last |-> "stop", cut |-> Len(rawEvents)]
  /\ pendingTimers' = ClearTimers
  /\ debounceTimers' = [p \in Paths |-> NoTimer]
  /\ UNCHANGED <<now, rawEvents, fired, emitted, observed, listeners, conn,
                 fileVars, histVars, engVars>>

\* SpecStop: a watcher from its construction, with start(), stop(), raw
\* events, timers and time.
InitStop ==
  /\ FilesIdle
  /\ HistoryIdle
  /\ EngineIdle
  /\ listeners = ServerListeners
  /\ conn = NoConn
  /\ watcher = Constructed
  /\ now = 0
  /\ debounceTimers = [p \in Paths |-> NoTimer]
  /\ pendingTimers = {}
  /\ rawEvents = <<>>
  /\ fired = <<>>
  /\ emitted = <<>>
  /\ observed = [u \in Subscribers |-> <<>>]

NextStop ==
  \/ Start
  \/ Stop
  \/ \E path \in StopPaths: HandleChange(path)
  \/ \E t \in pendingTimers: FireTimer(t)
  \/ Tick

SpecStop == InitStop /\ [][NextStop]_vars

----------------------------------------------------------------------------
(* The file index over the project directories: buildFileIndex,            *)
(* addToFileIndex and findSessionFile step by step, storage.ts:28-55,      *)
(* 84-86, 196-235, while files and directories come and go                 *)

\* The project directories, in the order readdir(projectsDir) lists them.
IndexDirs == <<DirP, DirQ>>

DirSet == {IndexDirs[i] : i \in 1..Len(IndexDirs)}

\* The file <id>.jsonl, and a file of another name on the same stem.
SessionFile(id) == [base |-> id, ext |-> Jsonl, mtime |-> 0, gone |-> FALSE]

NoteFile == [base |-> "a", ext |-> ".txt", mtime |-> 0, gone |-> FALSE]

\* The files the directories may hold, in the order readdir lists them,
\* and those each directory may hold.
IndexFiles == <<SessionFile("a"), SessionFile("b"), NoteFile>>

FilesIn(d) ==
  IF d = DirP THEN {SessionFile("a"), NoteFile}
  ELSE {SessionFile("a"), SessionFile("b")}

FilesOf(listing) == {listing[i] : i \in 1..Len(listing)}

ListingOf(files) == SelectSeq(IndexFiles, LAMBDA f: f \in files)

\* files.includes(`${sessionId}.jsonl`)
Includes(files, id) ==
  \E i \in 1..Len(files): files[i].base = id /\ files[i].ext = Jsonl

\* The ids the index has an entry for.
IdsOf(paths) == {id \in IndexIds: paths[id] # NoDir}

\* The directories readdir(projectsDir) returns: those that exist.
ExistingDirs == {d \in DirSet: dirs[d].exists}

\* The first directory, in listing order, of a set of them.
FirstDir(ds) ==
  IndexDirs[CHOOSE i \in 1..Len(IndexDirs):
              /\ IndexDirs[i] \in ds
              /\ \A j \in 1..(i - 1): IndexDirs[j] \notin ds]

\* A call on the index is [op, pc, id, todo, matches, listed, seen, hit,
\* found, dir]: todo are the directories whose readdir is awaited, matches
\* those where the file was seen; listed, seen and hit record what the call
\* did: the directories readdir(projectsDir) gave it, and what each
\* directory it read was then.
NoIndexCall ==
  [op |-> "none", pc |-> "done", id |-> "", todo |-> {}, matches |-> {},
   listed |-> {}, seen |-> <<>>, hit |-> FALSE, found |-> FALSE,
   dir |-> NoDir]

\* What a directory is for the file <id>.jsonl: unreadable, or with or
\* without the file.
StateOf(d, id) ==
  IF ~dirs[d].exists THEN "unreadable"
  ELSE IF SessionFile(id) \in FilesOf(dirs[d].files) THEN "with"
  ELSE "without"

LocateOps == {"findSessionFile", "getConversation", "getConversationStream"}

\* Mutant: only the first directory listed is read.
DirectoriesFirst(listed) == IF listed = {} THEN {} ELSE {FirstDir(listed)}

\* directories.map(async (dir) => ...): every directory listed is read.
Directories(listed) == listed

\* Mutant: an entry whose file is gone from its directory is dropped.
IndexedHitChecked(id) ==
  IF Includes(dirs[indexPaths[id]].files, id)
    THEN [found |-> TRUE, dir |-> indexPaths[id], index |-> indexPaths]
    ELSE [found |-> FALSE, dir |-> NoDir,
          index |-> [indexPaths EXCEPT ![id] = NoDir]]

\* if (this.fileIndex.has(sessionId)) return this.fileIndex.get(sessionId)
IndexedHit(id) ==
  [found |-> TRUE, dir |-> indexPaths[id], index |-> indexPaths]

\* buildFileIndex: readdir(projectsDir); a projects directory that does not
\* exist has no directories.
BuildList ==
  /\ call.op = "build" /\ call.pc = "list"
  /\ call' = [call EXCEPT !.pc = IF ExistingDirs = {} THEN "done" ELSE "dirs",
                          !.todo = ExistingDirs,
                          !.listed = ExistingDirs]
  /\ UNCHANGED <<fileExists, fileLines, fileOpen, fileIndex, indexPaths,
                 histVars, engVars, watchVars>>

\* The index after buildFileIndex has gone through the files of d.
RECURSIVE SetAll(_, _, _)
SetAll(paths, files, d) ==
  IF files = <<>> THEN paths
  ELSE LET file == Head(files)
       IN SetAll(IF file.ext = Jsonl /\ file.base \in IndexIds
                   THEN [paths EXCEPT ![file.base] = d]
                   ELSE paths,
                 Tail(files), d)

\* buildFileIndex: readdir of one directory returns; a directory that has
\* gone since the listing is skipped.
BuildDir(d) ==
  /\ call.op = "build" /\ call.pc = "dirs" /\ d \in call.todo
  /\ indexPaths' = IF dirs[d].exists THEN SetAll(indexPaths, dirs[d].files, d)
                   ELSE indexPaths
  /\ fileIndex' = IdsOf(indexPaths')
  /\ call' = [call EXCEPT !.todo = @ \ {d},
                          !.pc = IF call.todo = {d} THEN "done" ELSE "dirs"]
  /\ UNCHANGED <<fileExists, fileLines, fileOpen, histVars, engVars,
                 watchVars>>

\* The call has findSessionFile's answer: getConversation and
\* getConversationStream go on to read the file.
Returned(op) == IF op = "findSessionFile" THEN "done" ELSE "read"

\* findSessionFile(id), called on its own or first thing by getConversation
\* or getConversationStream, up to its first await.
LocateStart(op, id) ==
  /\ call.pc = "done"
  /\ IF indexPaths[id] # NoDir
       THEN LET h == IndexedHit(id)
            IN /\ indexPaths' = h.index
               /\ call' = [NoIndexCall EXCEPT
                             !.op = op, !.id = id, !.pc = Returned(op),
                             !.hit = TRUE, !.found = h.found, !.dir = h.dir]
       ELSE /\ indexPaths' = indexPaths
            /\ call' = [NoIndexCall EXCEPT !.op = op, !.id = id,
                                           !.pc = "list"]
  /\ fileIndex' = IdsOf(indexPaths')
  /\ UNCHANGED <<fileExists, fileLines, fileOpen, histVars, engVars,
                 watchVars>>

\* results.find((r) => r !== null), fileIndex.set and the return.
LocateFinish(c) ==
  IF c.matches = {}
    THEN [c EXCEPT !.pc = Returned(c.op), !.found = FALSE]
    ELSE [c EXCEPT !.pc = Returned(c.op), !.found = TRUE,
                   !.dir = FirstDir(c.matches)]

\* The index after a step of findSessionFile that leaves the call as r.
IndexAfter(r) ==
  IF r.pc = Returned(r.op) /\ r.found
    THEN [indexPaths EXCEPT ![r.id] = r.dir]
    ELSE indexPaths

\* findSessionFile: readdir(projectsDir) returns.
LocateList ==
  /\ call.op \in LocateOps /\ call.pc = "list"
  /\ LET c == [call EXCEPT !.pc = "dirs",
                           !.todo = Directories(ExistingDirs),
                           !.listed = ExistingDirs]
         r == IF c.todo = {} THEN LocateFinish(c) ELSE c
     IN /\ call' = r
        /\ indexPaths' = IndexAfter(r)
  /\ fileIndex' = IdsOf(indexPaths')
  /\ UNCHANGED <<fileExists, fileLines, fileOpen, histVars, engVars,
                 watchVars>>

\* findSessionFile: readdir of one directory returns; after the last one
\* Promise.all resolves and the call goes on to its return.
LocateDir(d) ==
  /\ call.op \in LocateOps /\ call.pc = "dirs" /\ d \in call.todo
  /\ LET c == [call EXCEPT
                 !.todo = @ \ {d},
                 !.seen = @ @@ (d :> StateOf(d, call.id)),
                 !.matches = IF /\ dirs[d].exists
                                /\ Includes(dirs[d].files, call.id)
                               THEN @ \cup {d} ELSE @]
         r == IF c.todo = {} THEN LocateFinish(c) ELSE c
     IN /\ call' = r
        /\ indexPaths' = IndexAfter(r)
  /\ fileIndex' = IdsOf(indexPaths')
  /\ UNCHANGED <<fileExists, fileLines, fileOpen, histVars, engVars,
                 watchVars>>

\* getConversation and getConversationStream read the file, or fail to and
\* return no message: the index is not looked at again.
ReadLocated ==
  /\ call.op \in LocateOps /\ call.pc = "read"
  /\ call' = [call EXCEPT !.pc = "done"]
  /\ UNCHANGED <<fileExists, fileLines, fileOpen, fileIndex, indexPaths,
                 histVars, engVars, watchVars>>

\* sessionChange for <d>/<id>.jsonl reaches the engine's listener, which may
\* be after the file has gone again: addToFileIndex(id, path).
SessionChanged(d, id) ==
  /\ indexPaths' = [indexPaths EXCEPT ![id] = d]
  /\ fileIndex' = IdsOf(indexPaths')
  /\ UNCHANGED <<fileExists, fileLines, fileOpen, call, histVars, engVars,
                 watchVars>>

\* The tool and the user create and delete files and project directories.
AddFile(d, f) ==
  /\ dirs[d].exists /\ f \in FilesIn(d) /\ f \notin FilesOf(dirs[d].files)
  /\ dirs' = [dirs EXCEPT ![d] = Listed(ListingOf(FilesOf(@.files) \cup {f}))]
  /\ UNCHANGED <<fileVars, historyLog, historyCache, sess, engVars, watchVars>>

RemoveFile(d, f) ==
  /\ dirs[d].exists /\ f \in FilesOf(dirs[d].files)
  /\ dirs' = [dirs EXCEPT ![d] = Listed(ListingOf(FilesOf(@.files) \ {f}))]
  /\ UNCHANGED <<fileVars, historyLog, historyCache, sess, engVars, watchVars>>

MakeDir(d) ==
  /\ ~dirs[d].exists
  /\ dirs' = [dirs EXCEPT ![d] = Listed(<<>>)]
  /\ UNCHANGED <<fileVars, historyLog, historyCache, sess, engVars, watchVars>>

RemoveDir(d) ==
  /\ dirs[d].exists
  /\ dirs' = [dirs EXCEPT ![d] = Missing]
  /\ UNCHANGED <<fileVars, historyLog, historyCache, sess, engVars, watchVars>>

\* SpecIndex: init() builds the index, then the server locates sessions,
\* over directories that hold any of the files or do not exist.
InitIndex ==
  /\ fileExists = FALSE
  /\ fileLines = <<>>
  /\ fileOpen = FALSE
  /\ fileIndex = {}
  /\ indexPaths = NoPaths
  /\ call = [NoIndexCall EXCEPT !.op = "build", !.pc = "list"]
  /\ historyLog = <<>>
  /\ historyCache = Null
  /\ sess = NoSess
  /\ dirs \in {(DirP :> p) @@ (DirQ :> q) :
                 p \in {Missing} \cup {Listed(ListingOf(fs)) :
                                         fs \in SUBSET FilesIn(DirP)},
                 q \in {Missing} \cup {Listed(ListingOf(fs)) :
                                         fs \in SUBSET FilesIn(DirQ)}}
  /\ EngineIdle
  /\ WatcherIdle

NextIndex ==
  \/ BuildList
  \/ \E d \in DirSet: BuildDir(d)
  \/ \E op \in LocateOps: \E id \in IndexIds: LocateStart(op, id)
  \/ LocateList
  \/ \E d \in DirSet: LocateDir(d)
  \/ ReadLocated
  \/ \E d \in DirSet: \E id \in IndexIds: SessionChanged(d, id)
  \/ \E d \in DirSet: \E f \in FilesOf(IndexFiles): AddFile(d, f)
  \/ \E d \in DirSet: \E f \in FilesOf(IndexFiles): RemoveFile(d, f)
  \/ \E d \in DirSet: MakeDir(d)
  \/ \E d \in DirSet: RemoveDir(d)

SpecIndex == InitIndex /\ [][NextIndex]_vars

----------------------------------------------------------------------------
(* Properties of the readers *)

RECURSIVE Reverse(_)
Reverse(s) == IF s = <<>> THEN <<>> ELSE Append(Reverse(Tail(s)), Head(s))

\* The index of the first line that does not parse, Len + 1 when all do.
FirstBad(lines) ==
  IF \E i \in 1..Len(lines): lines[i].kind = "bad"
    THEN CHOOSE i \in 1..Len(lines):
           /\ lines[i].kind = "bad"
           /\ \A j \in 1..(i - 1): lines[j].kind # "bad"
    ELSE Len(lines) + 1

StreamDone == call.op = "stream" /\ call.pc = "done"

\* C2, as claimed: for every file, unparseable lines included, the messages
\* the tail loop collects from offset 0 are the user/assistant messages of
\* readAll, none missing and none repeated.
TailEqualsReadAll ==
  call.op = "tail" =>
    call.messages = SelectMessages(GetConversationBody(call.readLines))

\* C2, amended: the tail loop collects the user/assistant messages readAll
\* gives for the lines before the first unparseable line (for all lines when
\* every line parses), and it ends at that line's start (at the end of the
\* file when every line parses).
TailEqualsReadAllBeforeBad ==
  call.op = "tail" =>
    LET k == FirstBad(call.readLines)
    IN /\ call.messages =
            SelectMessages(GetConversationBody(SubSeq(call.readLines, 1, k - 1)))
       /\ call.nextOffset = IF k > Len(call.readLines)
                              THEN call.fileSize
                              ELSE LineStart(call.readLines, k)

\* C2's case: a tail run that collected messages and stopped at an
\* unparseable line with a message after it, and one that reached the end
\* of a file of several kinds of lines.
TailWitness ==
  /\ call.op = "tail"
  /\ call.messages # <<>>
  /\ LET k == FirstBad(call.readLines)
     IN /\ k < Len(call.readLines)
        /\ IsMessage(call.readLines[k + 1])

\* The finished stream call read a file whose open last line does not parse,
\* from the start of a line, with only parseable lines in between.
PartialTail(c) ==
  LET ls == c.readLines
      n == Len(ls)
  IN /\ n >= 1 /\ c.readOpen /\ ls[n].kind = "bad"
     /\ \E k \in 1..n:
          /\ c.fromOffset = LineStart(ls, k)
          /\ \A j \in k..(n - 1): ls[j].kind # "bad"

\* The finished stream call was given the offset at which the call before it
\* stopped at the open last line, and that line is a whole record now.
CompletedTail(c) ==
  LET ls == c.readLines
      n == Len(ls)
  IN /\ c.prevPartial >= 0 /\ c.fromOffset = c.prevPartial
     /\ n >= 1 /\ ~c.readOpen /\ ls[n].kind \in RecordKinds
     /\ LineStart(ls, n) = c.prevPartial

\* C3: on a file whose open last line does not parse, readFrom returns the
\* messages of the whole lines before it and the offset where that line
\* starts; called with that offset once the line is complete and terminated,
\* it returns the line's message and the file size.
PartialLineSafety ==
  (StreamDone /\ call.resolved) =>
    LET ls == call.readLines
        n == Len(ls)
    IN /\ PartialTail(call) =>
            /\ \E k \in 1..n:
                 /\ call.fromOffset = LineStart(ls, k)
                 /\ call.messages = SelectMessages(SubSeq(ls, k, n - 1))
            /\ call.nextOffset = LineStart(ls, n)
       /\ CompletedTail(call) =>
            /\ call.messages = SelectMessages(<<ls[n]>>)
            /\ call.nextOffset = FileSize(ls, FALSE)

\* C3's case: the call after the producer completed the line returns it.
PartialLineWitness ==
  /\ StreamDone /\ call.resolved /\ CompletedTail(call)
  /\ Len(call.readLines) >= 2
  /\ call.messages = <<call.readLines[Len(call.readLines)]>>
  /\ call.nextOffset = call.fileSize

\* C4, as claimed: whatever the session id and the outcome, nextOffset is
\* at least the offset supplied.
OffsetLowerBoundAll ==
  StreamDone => call.nextOffset >= call.fromOffset

\* C4, amended: when the session id resolves to a file, nextOffset is at
\* least the offset supplied, whatever the outcome; for an unresolved id it
\* is 0.
OffsetLowerBound ==
  StreamDone =>
    IF call.resolved THEN call.nextOffset >= call.fromOffset
                     ELSE call.nextOffset = 0

\* C4's case: a call from a positive offset that read messages and advanced.
OffsetLowerWitness ==
  /\ StreamDone /\ call.resolved
  /\ call.fromOffset > 0 /\ call.messages # <<>>
  /\ call.nextOffset > call.fromOffset

\* C5, as claimed: on a resolved file, nextOffset is at most the size of
\* the file at the call, for every offset.
OffsetUpperBoundAll ==
  (StreamDone /\ call.resolved) => call.nextOffset <= call.sizeAtStat

\* C5, amended: on a resolved file, nextOffset is at most the size of the
\* file at the call when the offset supplied is; an offset past the end is
\* returned unchanged.
OffsetUpperBound ==
  (StreamDone /\ call.resolved) =>
    IF call.fromOffset <= call.sizeAtStat
      THEN call.nextOffset <= call.sizeAtStat
      ELSE call.nextOffset = call.fromOffset

\* C5's case: the clamp acts, on a last line read without its newline.
OffsetUpperWitness ==
  /\ StreamDone /\ call.resolved /\ call.readOpen
  /\ call.messages # <<>>
  /\ call.nextOffset = call.sizeAtStat
  /\ call.fromOffset + SumBytes(LinesFrom(call.readLines, TRUE, call.fromOffset))
       > call.sizeAtStat

\* C10: readAll returns the summaries in reverse file order, then the user
\* and assistant records in file order, and nothing else; an unresolved id
\* gives the empty sequence.
SummaryOrdering ==
  call.op = "conv" =>
    /\ (call.resolved /\ call.fileSize = 0) =>
          call.messages =
            Reverse(SelectSeq(call.readLines, LAMBDA l: l.kind = "summary"))
              \o SelectSeq(call.readLines, IsMessage)
    /\ ~call.resolved => call.messages = <<>>

\* C10's case: two different summaries around a message.
SummaryWitness ==
  /\ call.op = "conv" /\ call.resolved /\ Len(call.readLines) = 3
  /\ call.readLines[1].kind = "summary"
  /\ IsMessage(call.readLines[2])
  /\ call.readLines[3].kind = "summary"
  /\ call.readLines[1] # call.readLines[3]
  /\ call.messages =
       <<call.readLines[3], call.readLines[1], call.readLines[2]>>

----------------------------------------------------------------------------
(* Properties of the session resolver *)

\* The first entry, in log order, that came to session id id.
FirstEntryOf(id) ==
  sess.entries[CHOOSE k \in 1..Len(sess.ids):
                 /\ sess.ids[k] = id
                 /\ \A j \in 1..(k - 1): sess.ids[j] # id]

\* C7: getSessions never returns two sessions with the same id, and the
\* session of an id carries the display, timestamp and project of the first
\* entry of the log that came to that id.
DedupCorrectness ==
  sess.done =>
    /\ \A i, j \in 1..Len(sess.sessions):
         i # j => sess.sessions[i].id # sess.sessions[j].id
    /\ \A i \in 1..Len(sess.sessions):
         LET s == sess.sessions[i]
             e == FirstEntryOf(s.id)
         IN /\ \E k \in 1..Len(sess.ids): sess.ids[k] = s.id
            /\ s.display = e.display
            /\ s.timestamp = e.timestamp
            /\ s.project = e.project

\* C7's case: an id named by one entry and found by timestamp for a later
\* one that differs in timestamp and project.
DedupWitness ==
  /\ sess.done
  /\ \E i, j \in 1..Len(sess.entries):
       /\ i < j
       /\ sess.entries[i].sessionId # NoId
       /\ sess.entries[j].sessionId = NoId
       /\ sess.ids[i] = sess.ids[j]
       /\ sess.entries[i].timestamp # sess.entries[j].timestamp
       /\ sess.entries[i].project # sess.entries[j].project
       /\ \E n \in 1..Len(sess.sessions):
            /\ sess.sessions[n].id = sess.ids[i]
            /\ sess.sessions[n].display = sess.entries[i].display

\* C8: the sessions come by timestamp descending, and sessions of equal
\* timestamps in the order of their entries in the log (an entry's display
\* is its line number).
SessionOrdering ==
  sess.done =>
    \A i, j \in 1..Len(sess.sessions):
      i < j =>
        /\ sess.sessions[i].timestamp >= sess.sessions[j].timestamp
        /\ sess.sessions[i].timestamp = sess.sessions[j].timestamp =>
             sess.sessions[i].display < sess.sessions[j].display

\* C8's case: three sessions, two of equal timestamps, and one that the
\* sort moved ahead of an earlier entry's.
OrderingWitness ==
  /\ sess.done
  /\ Len(sess.sessions) = 3
  /\ \E i, j \in 1..3:
       /\ i < j
       /\ sess.sessions[i].timestamp = sess.sessions[j].timestamp
  /\ \E i, j \in 1..3:
       /\ i < j
       /\ sess.sessions[i].display > sess.sessions[j].display

\* The .jsonl files of a listing.
SessionFiles(files) == SelectSeq(files, LAMBDA f: f.ext = Jsonl)

\* The first file, in listing order, at the least distance from timestamp.
ClosestIndex(files, timestamp) ==
  CHOOSE m \in 1..Len(files):
    /\ \A n \in 1..Len(files):
         Abs(files[m].mtime - timestamp) <= Abs(files[n].mtime - timestamp)
    /\ \A n \in 1..(m - 1):
         Abs(files[n].mtime - timestamp) > Abs(files[m].mtime - timestamp)

\* An entry is skipped: it gives no session.
Skipped(k) ==
  /\ sess.ids[k] = NoId
  /\ \A n \in 1..Len(sess.sessions):
       sess.sessions[n].display # sess.entries[k].display

\* C9: an entry without a sessionId comes to the name, without .jsonl, of
\* the session file of its encoded project directory whose mtime is closest
\* to its timestamp, the first such in listing order; when the directory is
\* missing the entry is skipped, and every entry that comes to an id has a
\* session in the result all the same.
ResolutionFallback ==
  sess.done =>
    /\ \A k \in 1..Len(sess.entries):
         sess.entries[k].sessionId = NoId =>
           LET e == sess.entries[k]
               d == dirs[EncodeProjectPath(e.project)]
               js == SessionFiles(d.files)
           IN /\ ~d.exists => Skipped(k)
              /\ (d.exists /\ js # <<>> /\ \A n \in 1..Len(js): ~js[n].gone) =>
                   /\ sess.ids[k] = js[ClosestIndex(js, e.timestamp)].base
                   /\ \E n \in 1..Len(sess.sessions):
                        sess.sessions[n].id = sess.ids[k]
              /\ sess.ids[k] # NoId =>
                   \E n \in 1..Len(js):
                     /\ js[n].base = sess.ids[k]
                     /\ \A m \in 1..Len(js):
                          Abs(js[n].mtime - e.timestamp)
                            <= Abs(js[m].mtime - e.timestamp)
    /\ \A k \in 1..Len(sess.ids):
         sess.ids[k] # NoId =>
           \E n \in 1..Len(sess.sessions): sess.sessions[n].id = sess.ids[k]

\* C9's case: an entry of a missing directory is skipped, and a later entry
\* whose timestamp is as far from the first listed file as from the second
\* comes to the first and has its session.
ResolutionWitness ==
  /\ sess.done
  /\ \E k, j \in 1..Len(sess.entries):
       /\ k < j
       /\ sess.entries[k].sessionId = NoId
       /\ ~dirs[EncodeProjectPath(sess.entries[k].project)].exists
       /\ Skipped(k)
       /\ sess.entries[j].sessionId = NoId
       /\ LET e == sess.entries[j]
              js == SessionFiles(dirs[EncodeProjectPath(e.project)].files)
          IN /\ Len(js) >= 2
             /\ Abs(js[1].mtime - e.timestamp) = Abs(js[2].mtime - e.timestamp)
             /\ sess.ids[j] = js[1].base
             /\ \E n \in 1..Len(sess.sessions):
                  /\ sess.sessions[n].id = js[1].base
                  /\ sess.sessions[n].display = e.display

----------------------------------------------------------------------------
(* Properties of the engine under concurrent calls *)

Coalesced == {"getSessions", "getConversation"}

\* C1: a getSessions() or getConversation(id) call made while an earlier
\* call of the same kind is in progress awaits the promise of that call, so
\* that one body runs for both, and the callers of one promise receive the
\* same result.
RequestCoalescing ==
  /\ \A c \in Callers:
       (callers[c].st # "idle" /\ callers[c].api \in Coalesced) =>
         callers[c].overlap \subseteq {callers[c].comp}
  /\ \A k \in Keys:
       Cardinality({n \in 1..Len(comps):
                      comps[n].key = k /\ comps[n].pc # "done"}) <= 1
  /\ \A c, d \in Callers:
       (/\ callers[c].st = "done" /\ callers[d].st = "done"
        /\ callers[c].api \in Coalesced
        /\ callers[c].api = callers[d].api
        /\ callers[c].comp = callers[d].comp) =>
         callers[c].result = callers[d].result

\* C1's case: the second getSessions() call came while the first was in
\* progress, both have the result of the one body, and the log has changed
\* since, so that a second body would have given another result.
CoalescingWitness ==
  /\ callers["c1"].st = "done" /\ callers["c2"].st = "done"
  /\ callers["c1"].api = "getSessions" /\ callers["c2"].api = "getSessions"
  /\ callers["c2"].overlap = {callers["c1"].comp}
  /\ callers["c2"].comp = callers["c1"].comp
  /\ callers["c1"].result # <<>>
  /\ callers["c1"].result = callers["c2"].result
  /\ callers["c1"].result # GetSessionsBody(ParseHistory(historyLog))

HistoryApis == {"getSessions", "getProjects"}

\* C6: invalidateHistoryCache() leaves the cache null and starts no read of
\* the log; a call that finds the cache loaded starts no read either; and a
\* getSessions() or getProjects() call that started after an invalidation
\* has used entries read from the log after that invalidation.
CacheInvalidation ==
  [][/\ epoch' # epoch => (historyCache' = Null /\ comps' = comps)
     /\ (historyCache # Null /\ Len(comps') > Len(comps)) =>
          comps'[Len(comps')].pc # "load"
     /\ \A c \in Callers:
          (callers'[c].st = "done" /\ callers'[c].api \in HistoryApis) =>
            callers'[c].usedEpoch >= callers'[c].startEpoch]_vars

----------------------------------------------------------------------------
(* Properties of the change watcher *)

EventsOf(p) == {i \in 1..Len(rawEvents): rawEvents[i].path = p}

FiredOf(p) == {i \in 1..Len(fired): fired[i].path = p}

PendingOf(p) == {t \in pendingTimers: t.path = p}

\* The event of p before event i, or 0.
PrevEvent(p, i) ==
  IF \E j \in EventsOf(p): j < i
    THEN CHOOSE j \in EventsOf(p): j < i /\ \A k \in EventsOf(p): k < i => k <= j
    ELSE 0

\* The events of p that open a burst by the times of the events: the first,
\* and each that comes the settle window or more after the one before.
BurstStarts(p) ==
  {i \in EventsOf(p):
     PrevEvent(p, i) = 0
       \/ rawEvents[i].time - rawEvents[PrevEvent(p, i)].time >= DebounceMs}

\* No event of p comes exactly the settle window after the one before.
NoTie(p) ==
  \A i \in EventsOf(p):
    PrevEvent(p, i) # 0 =>
      rawEvents[i].time - rawEvents[PrevEvent(p, i)].time # DebounceMs

\* C11 as stated: once no timer is pending for a path, every burst of its
\* events, successive events closer together than the settle window, has
\* produced exactly one fired notification; at most one timer is pending per
\* path, and the key is removed before the notification is emitted.  (An
\* event that comes exactly the window after the one before is left out:
\* the timer and the event are due at the same time.)
DebounceBursts ==
  \A p \in Paths:
    /\ Cardinality(PendingOf(p)) <= 1
    /\ (PendingOf(p) = {} /\ NoTie(p)) =>
         Cardinality(FiredOf(p)) = Cardinality(BurstStarts(p))
    /\ \A i \in 1..Len(emitted): ~emitted[i].keySet

\* C11, amended: a burst of a path lasts until the path's timer runs, which
\* is the settle window or more after the last event so far, so that events
\* closer together than the window are one burst and an event that comes
\* before a late timer has run joins the burst as well.  Every such burst
\* has one fired notification or its timer pending; at most one timer is
\* pending per path, the one debounceTimers holds; the key is removed before
\* the notification is emitted; events on other paths cancel nothing.
DebounceTimerBursts ==
  /\ \A p \in {rawEvents[i].path : i \in 1..Len(rawEvents)}:
       /\ Cardinality(PendingOf(p)) <= 1
       /\ Cardinality(FiredOf(p)) + Cardinality(PendingOf(p))
            = Cardinality({i \in EventsOf(p): ~rawEvents[i].joined})
  /\ \A p \in Paths:
       debounceTimers[p] # NoTimer <=>
         \E t \in pendingTimers: t.path = p /\ t.id = debounceTimers[p]
  /\ \A i, j \in 1..Len(rawEvents):
       (/\ i < j
        /\ rawEvents[i].path = rawEvents[j].path
        /\ rawEvents[j].time - rawEvents[i].time < DebounceMs) =>
         rawEvents[j].joined
  /\ \A t \in pendingTimers:
       /\ rawEvents[t.id].path = t.path
       /\ t.due = rawEvents[t.id].time + DebounceMs
       /\ \A j \in (t.id + 1)..Len(rawEvents): rawEvents[j].path # t.path
  /\ \A n \in 1..Len(fired):
       /\ \A i \in 1..fired[n].after:
            rawEvents[i].path = fired[n].path =>
              fired[n].time >= rawEvents[i].time + DebounceMs
       /\ \E i \in 1..fired[n].after: rawEvents[i].path = fired[n].path
  /\ \A i \in 1..Len(emitted): ~emitted[i].keySet

\* C11's case: two events of a path in one burst with an event of another
\* path between them, and both paths have had their one notification.
DebounceWitness ==
  /\ Len(rawEvents) = 3
  /\ rawEvents[1].path = SessionPath /\ rawEvents[3].path = SessionPath
  /\ rawEvents[2].path = HistoryPath
  /\ rawEvents[3].joined
  /\ rawEvents[3].time > rawEvents[1].time
  /\ pendingTimers = {}
  /\ Cardinality(FiredOf(SessionPath)) = 1
  /\ Cardinality(FiredOf(HistoryPath)) = 1
  /\ Len(emitted) = 3

\* The notifications emitted when the timer of path ran at time.
EmittedAt(path, time) ==
  SelectSeq(emitted, LAMBDA n: n.path = path /\ n.time = time)

\* C12: a fired path ending in history.jsonl emits historyChange and nothing
\* else; any other fired path ending in .jsonl emits sessionChange(stem,
\* path) and then projectChange(directory); any other fired path emits
\* nothing; every subscriber is called with the notifications it listens to
\* in the order of emission.
NotificationOrder ==
  /\ \A n \in 1..Len(fired):
       LET path == fired[n].path
           notes == EmittedAt(path, fired[n].time)
       IN IF EndsWithHistory(path)
            THEN /\ Len(notes) = 1
                 /\ notes[1].event = "historyChange" /\ notes[1].args = <<>>
          ELSE IF path.suffix = ".jsonl"
            THEN /\ Len(notes) = 2
                 /\ notes[1].event = "sessionChange"
                 /\ notes[1].args = <<path.stem, path>>
                 /\ notes[2].event = "projectChange"
                 /\ notes[2].args = <<path.dir>>
          ELSE notes = <<>>
  /\ \A i \in 1..Len(emitted):
       \E n \in 1..Len(fired):
         fired[n].path = emitted[i].path /\ fired[n].time = emitted[i].time
  /\ \A i \in 1..Len(emitted):
       emitted[i].event = "sessionChange" =>
         /\ i < Len(emitted)
         /\ emitted[i + 1].event = "projectChange"
         /\ emitted[i + 1].path = emitted[i].path
  /\ \A u \in Subscribers:
       observed[u] = SelectSeq(emitted, LAMBDA n: n.event \in Subscriptions[u])

\* C12's case: the timers of a session file, of a session file whose name
\* ends in history.jsonl and of a file that is no log have run, and the
\* subscriber of session and project changes was called for the session
\* file only, session first.
NotificationWitness ==
  /\ Len(fired) = 3
  /\ {fired[n].path : n \in 1..3} = {SessionPath, ShadowPath, OtherPath}
  /\ Len(emitted) = 3
  /\ Len(observed["u2"]) = 2
  /\ observed["u2"][1].event = "sessionChange"
  /\ observed["u2"][1].args = <<"s1", SessionPath>>
  /\ observed["u2"][2].event = "projectChange"
  /\ observed["u2"][2].args = <<"proj">>
  /\ Len(observed["u1"]) = 3

----------------------------------------------------------------------------
(* Properties of the engine: failure, the registry, frames *)

KeyOf(api) ==
  IF api = "getSessions" THEN KeySessions
  ELSE IF api = "getConversation" THEN KeyConversation
  ELSE NoKey

\* C13: the callers of one coalesced promise receive the same error; once
\* the promise has settled its key is no longer in the registry, so that no
\* later call awaits it; and the outcome of a getSessions() call is that of
\* the loop on the entries of its own computation, whatever failed before.
CoalescedFailure ==
  /\ \A c, d \in Callers:
       (/\ callers[c].st = "done" /\ callers[d].st = "done"
        /\ callers[c].api \in Coalesced
        /\ callers[c].api = callers[d].api
        /\ callers[c].comp = callers[d].comp) =>
         callers[c].failed = callers[d].failed
  /\ \A k \in 1..Len(comps):
       (comps[k].pc = "done" /\ comps[k].key \in Keys) =>
         pendingRequests[comps[k].key] # k
  /\ \A c \in Callers:
       callers[c].st = "waiting" => comps[callers[c].comp].pc # "done"
  /\ \A c \in Callers:
       (callers[c].st = "done" /\ callers[c].api = "getSessions") =>
         /\ callers[c].failed = SessionsThrows(callers[c].entries, {})
         /\ ~callers[c].failed =>
              callers[c].result = GetSessionsBody(callers[c].entries)

\* C13's case: two callers shared a getSessions() computation that failed,
\* both have the error, and the key is free again.
FailureWitness ==
  /\ callers["c1"].st = "done" /\ callers["c2"].st = "done"
  /\ callers["c1"].api = "getSessions" /\ callers["c2"].api = "getSessions"
  /\ callers["c1"].comp = callers["c2"].comp
  /\ callers["c2"].overlap = {callers["c1"].comp}
  /\ callers["c1"].failed /\ callers["c2"].failed
  /\ pendingRequests[KeySessions] = NoComp

\* The computations of a key that have started and not finished.
InFlight(key) ==
  {k \in 1..Len(comps): comps[k].key = key /\ comps[k].pc # "done"}

\* C17: a key is in the registry exactly when a computation of the key has
\* started and not finished, and it is registered to that computation; an
\* entry changes only by being removed when its own computation finishes;
\* a call that finds the key absent starts a new computation and registers
\* it.
RegistryInvariant ==
  /\ [](\A key \in Keys:
          /\ pendingRequests[key] # NoComp <=> InFlight(key) # {}
          /\ InFlight(key) \subseteq {pendingRequests[key]})
  /\ [][/\ \A key \in Keys:
             (/\ pendingRequests[key] # NoComp
              /\ pendingRequests'[key] # pendingRequests[key]) =>
               /\ pendingRequests'[key] = NoComp
               /\ comps[pendingRequests[key]].pc = "settled"
               /\ comps'[pendingRequests[key]].pc = "done"
        /\ \A c \in Callers:
             (/\ callers'[c] # callers[c]
              /\ callers'[c].st = "waiting"
              /\ callers'[c].api \in Coalesced
              /\ pendingRequests[KeyOf(callers'[c].api)] = NoComp) =>
               /\ callers'[c].comp = Len(comps) + 1
               /\ Len(comps') = Len(comps) + 1
               /\ comps'[Len(comps')].pc # "done"
               /\ pendingRequests'[KeyOf(callers'[c].api)] = Len(comps) + 1]_vars

\* C17's case: a second computation of a key is registered after the first
\* one of the key has finished and its entry was removed.
RegistryWitness ==
  /\ Len(comps) = 3
  /\ comps[2].key = KeySessions /\ comps[2].pc = "done"
  /\ comps[3].key = KeySessions /\ comps[3].pc = "settled"
  /\ pendingRequests[KeySessions] = 3
  /\ callers["c1"].comp = 2 /\ callers["c1"].st = "done"
  /\ callers["c2"].comp = 3 /\ callers["c2"].st = "waiting"

\* C15: two successive getSessions() calls, the second made after the
\* first returned (a computation of the key is numbered after another one
\* only when that one has finished), return the same sessions in the same
\* order: the history log and the project directories never change in
\* SpecQuiet.
Idempotence ==
  \A c, d \in Callers:
    (/\ callers[c].st = "done" /\ callers[c].api = "getSessions"
     /\ callers[d].st = "done" /\ callers[d].api = "getSessions"
     /\ callers[c].comp < callers[d].comp) =>
      /\ callers[d].failed = callers[c].failed
      /\ callers[d].result = callers[c].result

----------------------------------------------------------------------------
(* Properties of the server: consumers that disconnect *)

\* The listeners of an event without those of consumer c.
Without(event, c) == SelectSeq(listeners[event], LAMBDA l: l # c)

\* C14: the engine's invalidation and index listeners are registered at all
\* times; a step in which a consumer's listener goes takes away that
\* listener only, keeps the other listeners in their order and leaves the
\* registry, the computations and what every caller awaits as they were;
\* a computation that finishes gives its result to every caller awaiting
\* it; and every caller that awaits a computation receives its outcome.
Cancellation ==
  /\ [](/\ "invalidate" \in ListenersOf("historyChange")
        /\ "index" \in ListenersOf("sessionChange"))
  /\ [][\A c \in Callers:
          (/\ \E event \in Events: c \in ListenersOf(event)
           /\ \A event \in Events:
                \A i \in 1..Len(listeners'[event]):
                  listeners'[event][i] # c) =>
            /\ \A event \in Events: listeners'[event] = Without(event, c)
            /\ pendingRequests' = pendingRequests
            /\ comps' = comps
            /\ callers' = callers]_vars
  /\ [][\A k \in 1..Len(comps):
          (comps[k].pc # "done" /\ comps'[k].pc = "done") =>
            \A d \in Callers:
              (callers[d].st = "waiting" /\ callers[d].comp = k) =>
                /\ callers'[d].st = "done"
                /\ callers'[d].comp = k
                /\ callers'[d].failed = comps[k].failed]_vars
  /\ \A d \in Callers:
       (callers[d].st = "waiting") ~> (callers[d].st = "done")

\* C14's case: c1, which calls the engine through its streams only, opened
\* the sessions stream and c2 joined its getSessions() computation; c1 has
\* disconnected while the computation is in flight.
CancellationWitness ==
  /\ listeners = ServerListeners
  /\ callers["c1"].api = "getSessions" /\ callers["c2"].api = "getSessions"
  /\ callers["c1"].comp = callers["c2"].comp
  /\ callers["c2"].overlap = {callers["c1"].comp}
  /\ callers["c1"].st = "waiting" /\ callers["c2"].st = "waiting"
  /\ comps[callers["c2"].comp].pc = "settled"

----------------------------------------------------------------------------
(* Properties of the engine: what changes the file index and the cache *)

HistoryReaders == {"getSessions", "getProjects"}

FileReaders == {"getConversation", "getConversationStream"}

\* The step is one of computation k: a continuation of its call ran.
StepOf(k) == comps'[k] # comps[k]

\* The step is a history load's assignment of the cache.
IsLoadAssign ==
  \E k \in 1..Len(comps):
    /\ StepOf(k) /\ comps[k].pc = "read"
    /\ historyCache' = Loaded(comps[k].entries)

\* The step is a notification's: no computation goes on, which every other
\* step that changes the index or the cache does.
IsNotification == \A k \in 1..Len(comps): ~StepOf(k)

\* C20: a step of getSessions() or getProjects() leaves the file index
\* unchanged; a step of getConversation() or getConversationStream() leaves
\* the history cache unchanged and adds at most the requested id to the
\* file index; the history cache changes only by a load's assignment or by
\* the invalidation of a historyChange notification, which leaves the file
\* index unchanged; a notification changes the index only by adding one id,
\* and then leaves the cache unchanged.
FrameOfSharedState ==
  [][/\ \A k \in 1..Len(comps):
          StepOf(k) =>
            /\ comps[k].api \in HistoryReaders => fileIndex' = fileIndex
            /\ comps[k].api \in FileReaders =>
                 /\ historyCache' = historyCache
                 /\ fileIndex' \in {fileIndex, fileIndex \cup {SessionId}}
     /\ historyCache' # historyCache =>
          \/ IsLoadAssign /\ fileIndex' = fileIndex /\ epoch' = epoch
          \/ /\ IsNotification
             /\ epoch' = epoch + 1
             /\ historyCache' = Null
             /\ fileIndex' = fileIndex
     /\ epoch' # epoch => historyCache' = Null /\ fileIndex' = fileIndex
     /\ (IsNotification /\ fileIndex' # fileIndex) =>
          /\ \E id \in {SessionId, OtherSessionId}:
               fileIndex' = fileIndex \cup {id}
          /\ historyCache' = historyCache
          /\ epoch' = epoch
          /\ pendingRequests' = pendingRequests]_vars

\* C20's case: both notifications have come, the cache was reloaded after
\* the invalidation, and every operation has returned to a caller, the
\* stream read with the message of the file it found.
FrameWitness ==
  /\ fileIndex = {SessionId, OtherSessionId}
  /\ epoch = 1 /\ historyCache # Null /\ cacheEpoch = 1
  /\ callers["c1"].st = "done"
  /\ callers["c1"].api = "getConversationStream"
  /\ callers["c1"].result # <<>>
  /\ callers["c2"].st = "done"
  /\ callers["c2"].api = "getSessions"
  /\ callers["c2"].usedEpoch = 1

----------------------------------------------------------------------------
(* Properties of the stream reader while the producer appends *)

\* Where, in bytes from the start of the read, the text of the last line
\* ends that the loop pushed as a message; 0 when it pushed none.
RECURSIVE LastMessageEnd(_, _, _)
LastMessageEnd(ls, pos, end) ==
  IF ls = <<>> THEN end
  ELSE LET line == Head(ls)
       IN IF line.kind = "bad" THEN end
          ELSE LastMessageEnd(Tail(ls), pos + line.len + 1,
                              IF IsMessage(line) THEN pos + line.len ELSE end)

\* C16: the messages a getConversationStream call returns come from lines
\* that end at or before the size stat gave at the start of the call (a
\* message line never starts before the offset: the rest of a line the read
\* starts inside is no message).
ByteRange ==
  (StreamDone /\ call.resolved /\ call.messages # <<>>) =>
    call.fromOffset
      + LastMessageEnd(LinesFrom(call.readLines, call.readOpen,
                                 call.fromOffset), 0, 0)
      <= call.sizeAtStat

----------------------------------------------------------------------------
(* Properties of the file index *)

\* C18: no step of init's build, of findSessionFile on its own or within
\* getConversation and getConversationStream, or of a sessionChange
\* notification, and no deletion of a file or directory, takes an id out of
\* the file index.
IndexMonotonic ==
  [][/\ IdsOf(indexPaths) \subseteq IdsOf(indexPaths')
     /\ fileIndex \subseteq fileIndex']_vars

\* C18's case: getConversation has returned for an indexed id whose file is
\* no longer in the directory the index names, and the entry is still there
\* beside the other id's.
IndexWitness ==
  /\ call.op = "getConversation" /\ call.pc = "done"
  /\ call.hit /\ call.id = "a"
  /\ indexPaths["a"] = DirQ /\ indexPaths["b"] = DirQ
  /\ StateOf(DirQ, "a") = "without"
  /\ fileIndex = {"a", "b"}

\* The step is the one in which findSessionFile returns.
Returns ==
  /\ call' # call /\ call'.op \in LocateOps
  /\ call'.pc = Returned(call'.op)

\* C19: a call is answered from the index exactly when the id is in it at
\* the call, with the indexed path, no directory listed and the index as it
\* was; on a miss every directory that readdir(projectsDir) gave is read,
\* the call returns a path exactly when one of those it could read held
\* <id>.jsonl, the path is of such a directory and the index maps the id
\* to it when the call returns; a call that returns not-found, and every
\* step before the return, leaves the index as it is.
LocateScan ==
  /\ []((call.op \in LocateOps /\ call.pc \in {"read", "done"}) =>
          IF call.hit
            THEN call.found /\ call.listed = {} /\ DOMAIN call.seen = {}
            ELSE /\ DOMAIN call.seen = call.listed
                 /\ call.found <=>
                      (\E d \in call.listed: call.seen[d] = "with")
                 /\ call.found =>
                      (call.dir \in call.listed
                         /\ call.seen[call.dir] = "with"))
  /\ [][/\ (call' # call /\ call.pc = "done" /\ call'.op \in LocateOps) =>
             (call'.hit <=> indexPaths[call'.id] # NoDir)
        /\ Returns =>
             IF call'.hit
               THEN /\ call'.dir = indexPaths[call'.id]
                    /\ indexPaths' = indexPaths
             ELSE IF call'.found
               THEN indexPaths' = [indexPaths EXCEPT ![call'.id] = call'.dir]
             ELSE indexPaths' = indexPaths
        /\ (call' # call /\ call'.op \in LocateOps /\ ~Returns) =>
             indexPaths' = indexPaths]_vars

\* C19's case: a miss; of the two directories listed, the first had gone
\* when it was read and the second held the file, which is now indexed.
LocateWitness ==
  /\ call.op = "findSessionFile" /\ call.pc = "done" /\ call.id = "a"
  /\ ~call.hit /\ call.found
  /\ call.listed = {DirP, DirQ}
  /\ call.seen[DirP] = "unreadable" /\ call.seen[DirQ] = "with"
  /\ call.dir = DirQ /\ indexPaths["a"] = DirQ

----------------------------------------------------------------------------
(* The tail cursor of a stream connection *)

\* C21: on one conversation stream connection, whatever the interleaving of
\* the initial read with the sessionChange handlers and of the handlers with
\* each other, the connection's offset never decreases and no message of the
\* session file is written to the consumer more than once.
TailCursor ==
  [][/\ conn'.offset >= conn.offset
     /\ \A i, j \in 1..Len(conn'.written):
          i # j => conn'.written[i] # conn'.written[j]]_vars

----------------------------------------------------------------------------
(* The session list of a notified consumer *)

\* C22: the session list that the onHistoryChange handler of a subscribed
\* consumer obtains from getSessions() is computed from history entries read
\* after the cache invalidation of that notification, whatever getSessions()
\* computations are in flight when the notification fires.
Freshness ==
  \A c \in Callers:
    (/\ callers[c].from = "onHistoryChange"
     /\ callers[c].st = "done" /\ ~callers[c].failed) =>
      callers[c].usedEpoch >= callers[c].startEpoch

----------------------------------------------------------------------------
(* Stopping the watcher *)

\* The step is a call of start() or stop().
Called(name) == watcher'.calls # watcher.calls /\ watcher'.last = name

\* C23: stop() leaves no FSWatcher, cancels every pending debounce timer and
\* empties the timer table, so that the timer of a raw event received
\* before a stop() never runs after it and the event gives no notification;
\* start() on a started watcher keeps its FSWatcher and changes nothing
\* else, and stop() on a stopped watcher leaves the state as it is.
WatcherStop ==
  [][/\ Called("stop") =>
          /\ watcher'.fs = NoWatcher
          /\ pendingTimers' = {}
          /\ debounceTimers' = [p \in Paths |-> NoTimer]
          /\ UNCHANGED <<rawEvents, fired, emitted, observed, listeners>>
          /\ watcher.fs = NoWatcher =>
               UNCHANGED <<debounceTimers, pendingTimers>>
     /\ (Called("start") /\ watcher.fs # NoWatcher) =>
          /\ watcher'.fs = watcher.fs
          /\ UNCHANGED <<debounceTimers, pendingTimers, rawEvents, fired,
                         emitted, observed, listeners>>
     /\ (fired' # fired \/ emitted' # emitted) =>
          /\ pendingTimers' \subseteq pendingTimers
          /\ \A t \in pendingTimers \ pendingTimers': t.id > watcher.cut]_vars

\* A raw event was received, stop() was called before its timer ran, and
\* more than the settle window and a timer's lateness later there has been
\* no notification.
StopWitness ==
  /\ watcher.last = "stop" /\ watcher.cut >= 1
  /\ now > rawEvents[1].time + DebounceMs + MaxLate
  /\ fired = <<>> /\ emitted = <<>>
  /\ pendingTimers = {}

====
